---------------------------- MODULE Spec2Model ----------------------------
(***************************************************************************)
(* A model of the Mongo-backed account layer of debrid-server: the users   *)
(* routes (create, update, login, e-mail verification, registration) and   *)
(* the gift-card routes (redeem).                                          *)
(*                                                                         *)
(* Every HTTP request is a process that takes one step per database        *)
(* operation it awaits: the operation executes atomically on the database  *)
(* and the handler's code up to the next await runs with it.  Between two  *)
(* steps of one request any other request may take steps.                  *)
(*                                                                         *)
(* Strings that the code inspects (e-mail addresses, card numbers) are     *)
(* sequences of one-character strings.  Time is counted in hours.          *)
(* Identifiers (ObjectId) are positive naturals, 0 is an invalid id.       *)
(***************************************************************************)
EXTENDS Integers, Sequences, FiniteSets, TLC

VARIABLES
    config,                \* src/config.js: the settings read from the environment
    includeResultMetadata, \* does findOneAndUpdate return {value, ok, ...} ?
    users,                 \* the users collection: sequence of documents
    gift_cards,            \* the gift card collection: sequence of documents
    user_redeems,          \* the user redeem collection: sequence of documents
    verify_email,          \* the verify_email collection: set of documents
    clock,                 \* Date.now(), in hours
    req,                   \* the requests: slot -> request record
    randomCount,           \* number of random tokens drawn so far
    mailbox,               \* verification tokens delivered by e-mail
    jwts                   \* ids of the users an auth token was signed for

vars == <<config, includeResultMetadata, users, gift_cards, user_redeems, verify_email,
          clock, req, randomCount, mailbox, jwts>>

-----------------------------------------------------------------------------
(* src/config.js *)

\* API_TIMEOUT_MS when the environment does not set it
defaultTimeout == 15000

\* the settings when the environment sets neither API_TOKEN nor API_TIMEOUT_MS;
\* the host of the base URLs is shortened to d
DefaultConfig ==
    [apiBaseUrl |-> <<"h", "t", "t", "p", "s", ":", "/", "/", "d", "/", "v", "2">>,
     oauthBaseUrl |-> <<"h", "t", "t", "p", "s", ":", "/", "/", "d">>,
     defaultTimeout |-> defaultTimeout,
     defaultToken |-> <<>>]

-----------------------------------------------------------------------------
(* Bounds of the model *)

\* requests served by the gift card specification
MaxRedeemReq == 2
\* the clock stops advancing at this hour
MaxClock == 36
\* hours the clock advances in one step
TickHours == 12

RedeemReqIds == 1..MaxRedeemReq

-----------------------------------------------------------------------------
(* JavaScript values *)

\* the result of arithmetic on undefined (undefined + 1): not a number
NaN == -1000000

IsNaN(x) == x = NaN

Plus(x, y) == IF IsNaN(x) \/ IsNaN(y) THEN NaN ELSE x + y

Minus(x, y) == IF IsNaN(x) \/ IsNaN(y) THEN NaN ELSE x - y

\* x > y as JavaScript evaluates it: false when either side is NaN
Gt(x, y) == ~IsNaN(x) /\ ~IsNaN(y) /\ x > y

\* x <= y as JavaScript evaluates it
Le(x, y) == ~IsNaN(x) /\ ~IsNaN(y) /\ x <= y

\* a null document / a findOne that matched nothing
NoDoc == [_id |-> 0]

IsDoc(d) == d._id # 0

\* null for a date or a timestamp field
NoDate == -1

HasOwn(payload, f) == f \in DOMAIN payload

\* { ...doc, ...updates } and the effect of $set
Assign(doc, updates) ==
    [f \in (DOMAIN doc) \cup (DOMAIN updates) |->
        IF f \in DOMAIN updates THEN updates[f] ELSE doc[f]]

Ok(v) == [ok |-> TRUE, value |-> v, status |-> 0]

Err(s) == [ok |-> FALSE, value |-> NoDoc, status |-> s]

-----------------------------------------------------------------------------
(* Strings as sequences of characters *)

LowerChars == <<"a","b","c","d","e","f","g","h","i","j","k","l","m",
                "n","o","p","q","r","s","t","u","v","w","x","y","z">>

UpperChars == <<"A","B","C","D","E","F","G","H","I","J","K","L","M",
                "N","O","P","Q","R","S","T","U","V","W","X","Y","Z">>

DigitChars == <<"0","1","2","3","4","5","6","7","8","9">>

Range(s) == {s[i] : i \in DOMAIN s}

IsSpace(c) == c = " "

ToLowerChar(c) ==
    IF \E i \in DOMAIN UpperChars : UpperChars[i] = c
    THEN LowerChars[CHOOSE i \in DOMAIN UpperChars : UpperChars[i] = c]
    ELSE c

ToUpperChar(c) ==
    IF \E i \in DOMAIN LowerChars : LowerChars[i] = c
    THEN UpperChars[CHOOSE i \in DOMAIN LowerChars : LowerChars[i] = c]
    ELSE c

ToLowerCase(s) == [i \in DOMAIN s |-> ToLowerChar(s[i])]

ToUpperCase(s) == [i \in DOMAIN s |-> ToUpperChar(s[i])]

\* String.prototype.trim
Trim(s) ==
    IF \A i \in DOMAIN s : IsSpace(s[i]) THEN <<>>
    ELSE LET first == CHOOSE i \in DOMAIN s :
                          ~IsSpace(s[i]) /\ \A j \in 1..(i-1) : IsSpace(s[j])
             last == CHOOSE i \in DOMAIN s :
                          ~IsSpace(s[i]) /\ \A j \in (i+1)..Len(s) : IsSpace(s[j])
         IN SubSeq(s, first, last)

\* String.prototype.slice(from, to) with 0-based from, exclusive to
Slice(s, from, to) ==
    SubSeq(s, from + 1, IF to < Len(s) THEN to ELSE Len(s))

-----------------------------------------------------------------------------
(* src/utils/time.js *)

\* the offset of China Standard Time, in hours
CHINA_TIME_OFFSET_MS == 8

\* toChineseIsoString: the ISO string of the instant shifted by the offset;
\* new Date(<that string>) reads it back as the shifted instant
toChineseIsoString(inputDate) == inputDate + CHINA_TIME_OFFSET_MS


-----------------------------------------------------------------------------
(* The users routes: parsing and validation *)

\* a field of a JSON payload; an absent field reads as the given default
Field(payload, f, default) == IF HasOwn(payload, f) THEN payload[f] ELSE default

\* normalizeEmail.  An absent or non-string e-mail is the empty sequence here:
\* both are answered 400 "Email is required".
normalizeEmail(value) ==
    IF Len(Trim(value)) = 0 THEN Err(400)
    ELSE LET normalized == ToLowerCase(Trim(value))
         IN IF "@" \notin Range(normalized) \/ normalized[1] = "@"
            THEN Err(400)
            ELSE Ok(normalized)

\* parsePassword.  An absent password is the empty string here.
parsePassword(value) == IF Len(value) < 6 THEN Err(400) ELSE Ok(value)

\* parseVerificationToken.  Tokens are naturals; 0 is an absent or blank one.
parseVerificationToken(value) == IF value = 0 THEN Err(400) ELSE Ok(value)

\* parseNumberField: Number(value), finite and not negative
parseNumberField(value) == IF IsNaN(value) \/ value < 0 THEN Err(400) ELSE Ok(value)

\* parseBooleanField.  "true"/"false" also stand for the booleans, "1"/"0"
\* for the numbers; any other value gives the fallback.
parseBooleanField(value, fallback) ==
    IF value \in {"true", "1"} THEN TRUE
    ELSE IF value \in {"false", "0"} THEN FALSE
    ELSE fallback

\* parseNullableDateField: null stays null, an invalid date is NaN
parseNullableDateField(value) ==
    IF value = NoDate THEN Ok(NoDate)
    ELSE IF IsNaN(value) THEN Err(400)
    ELSE Ok(toChineseIsoString(value))

\* ObjectId.isValid
ObjectIdIsValid(value) == value >= 1

\* enforceStorageInvariant: TRUE when it throws
enforceStorageInvariant(storageAll, storageUsed) == Gt(storageUsed, storageAll)

isAdmin(user) == user.role = "admin"

\* ensureSelfAccess: 0 when access is granted, else the status thrown
ensureSelfAccess(requestedUserId, currentUser) ==
    IF ~IsDoc(currentUser) THEN 401
    ELSE IF isAdmin(currentUser) THEN 0
    ELSE IF currentUser._id # requestedUserId THEN 403
    ELSE 0

\* createUserDocument, at time now.  The password reset fields, which no
\* modelled route reads, are left out of the document.
createUserDocument(payload, now) ==
    LET email == normalizeEmail(Field(payload, "email", <<>>))
        password == parsePassword(Field(payload, "password", ""))
        storageAll == parseNumberField(Field(payload, "storage_all", 0))
        storageUsed == parseNumberField(Field(payload, "storage_used", 0))
        role == IF Field(payload, "role", "") # "" THEN payload.role ELSE "standard"
        timestamp == toChineseIsoString(now)
        emailVerified == parseBooleanField(Field(payload, "email_verified", "undefined"), FALSE)
        givenAt == IF HasOwn(payload, "email_verified_at")
                   THEN parseNullableDateField(payload.email_verified_at)
                   ELSE Ok(NoDate)
    IN IF ~email.ok THEN Err(400)
       ELSE IF ~password.ok THEN Err(400)
       ELSE IF ~storageAll.ok THEN Err(400)
       ELSE IF ~storageUsed.ok THEN Err(400)
       ELSE IF enforceStorageInvariant(storageAll.value, storageUsed.value) THEN Err(400)
       ELSE IF emailVerified /\ ~givenAt.ok THEN Err(400)
       ELSE Ok([_id |-> 0,
                email |-> email.value,
                password |-> password.value,
                storage_all |-> storageAll.value,
                storage_used |-> storageUsed.value,
                storage_expired_at |-> toChineseIsoString(now + 7 * 24),
                deleted |-> parseBooleanField(Field(payload, "deleted", "undefined"), FALSE),
                role |-> role,
                created_at |-> timestamp,
                updated_at |-> timestamp,
                token |-> 0,
                last_login_at |-> NoDate,
                email_verified |-> emailVerified,
                email_verified_at |->
                    IF ~emailVerified THEN NoDate
                    ELSE IF givenAt.value # NoDate THEN givenAt.value
                    ELSE timestamp])

\* buildUpdateDocument, at time now: the $set document, or the status thrown
buildUpdateDocument(payload, current, now) ==
    LET email == normalizeEmail(Field(payload, "email", <<>>))
        password == parsePassword(Field(payload, "password", ""))
        storageAll == parseNumberField(Field(payload, "storage_all", 0))
        storageUsed == parseNumberField(Field(payload, "storage_used", 0))
        nextStorageAll == IF HasOwn(payload, "storage_all")
                          THEN storageAll.value ELSE current.storage_all
        nextStorageUsed == IF HasOwn(payload, "storage_used")
                           THEN storageUsed.value ELSE current.storage_used
        expiredAt == parseNullableDateField(Field(payload, "storage_expired_at", NoDate))
        keys == (DOMAIN payload) \cap
                {"email", "password", "storage_all", "storage_used",
                 "storage_expired_at", "deleted", "role"}
        updates == [f \in keys \cup {"updated_at"} |->
            CASE f = "email" -> email.value
              [] f = "password" -> password.value
              [] f = "storage_all" -> storageAll.value
              [] f = "storage_used" -> storageUsed.value
              [] f = "storage_expired_at" -> expiredAt.value
              [] f = "deleted" -> parseBooleanField(payload.deleted, current.deleted)
              [] f = "role" -> payload.role
              [] f = "updated_at" -> toChineseIsoString(now)]
    IN IF HasOwn(payload, "email") /\ ~email.ok THEN Err(400)
       ELSE IF HasOwn(payload, "password") /\ ~password.ok THEN Err(400)
       ELSE IF HasOwn(payload, "storage_all") /\ ~storageAll.ok THEN Err(400)
       ELSE IF HasOwn(payload, "storage_used") /\ ~storageUsed.ok THEN Err(400)
       ELSE IF enforceStorageInvariant(nextStorageAll, nextStorageUsed) THEN Err(400)
       ELSE IF HasOwn(payload, "storage_expired_at") /\ ~expiredAt.ok THEN Err(400)
       ELSE IF HasOwn(payload, "role") /\ payload.role = "" THEN Err(400)
       ELSE IF keys = {} THEN Err(400)
       ELSE Ok(updates)

-----------------------------------------------------------------------------
(* The collections *)

\* findOne({_id}) on a collection kept as a sequence indexed by _id
FindById(coll, id) == IF id \in DOMAIN coll THEN coll[id] ELSE NoDoc

\* findOne(filter) on a sequence, matches being the positions of the
\* documents that match the filter: the first of them in natural order
FindFirst(coll, matches) ==
    IF matches # {}
    THEN coll[CHOOSE i \in matches : \A j \in matches : i <= j]
    ELSE NoDoc

\* insertOne: the document gets the next _id
InsertOne(coll, doc) == Append(coll, Assign(doc, [_id |-> Len(coll) + 1]))

\* replaces the document by the updates
UpdateByIdMutant(coll, id, updates) ==
    IF id \in DOMAIN coll
    THEN [coll EXCEPT ![id] = Assign([_id |-> id, deleted |-> FALSE], updates)]
    ELSE coll

\* updateOne / findOneAndUpdate({_id}, {$set: updates}); no upsert
UpdateById(coll, id, updates) ==
    IF id \in DOMAIN coll THEN [coll EXCEPT ![id] = Assign(@, updates)] ELSE coll

\* What findOneAndUpdate(..., {returnDocument: "after"}) resolves to: the
\* document or null, or with includeResultMetadata a ModifyResult, which is
\* an object (truthy) whose value field holds the document or null.
FindOneAndUpdateResult(after) ==
    [truthy |-> includeResultMetadata \/ IsDoc(after),
     doc |-> IF includeResultMetadata THEN NoDoc ELSE after,
     value |-> IF includeResultMetadata THEN after ELSE NoDoc]


-----------------------------------------------------------------------------
(* The requests *)

Idle == [op |-> "none", pc |-> "idle", status |-> 0]

\* slot r is free, and the slots are taken in order
CanStart(r) == req[r].pc = "idle" /\ (IF r = 1 THEN TRUE ELSE req[r-1].pc # "idle")

\* the request of slot r changes as given
Step(r, changes) == req' = [req EXCEPT ![r] = Assign(@, changes)]

\* what is left of a request once it is answered: what was asked and the
\* answer; the handler's locals are gone
Answered(r, answer) ==
    Assign([f \in (DOMAIN req[r]) \cap {"op", "userId", "cardNumber", "auth", "id",
                                        "payload", "email", "password",
                                        "verificationToken", "arrived",
                                        "includeDeleted"} |-> req[r][f]],
           Assign([pc |-> "done"], answer))

\* res.status(status).json(...): the request is answered
Respond(r, status) == req' = [req EXCEPT ![r] = Answered(r, [status |-> status])]

\* the pcs at which a request waits for the database
DbPcs == {"authenticate", "findCurrent", "update", "findUser", "claimCard",
          "checkUsed", "insertRedeem", "updateUser", "findExisting", "insertUser",
          "findTarget", "updateTarget", "deleteRequests", "insertRequest",
          "findRecord", "deleteRecord", "findRecordUser", "markUsed", "verifyUser",
          "recordLogin", "persistToken", "refreshStorage", "findLogin"}

\* A database operation rejects (the connection is lost, the server times
\* out): the handler's promise rejects, asyncHandler passes the error to the
\* error middleware, which answers 500.
DbError(r) ==
    /\ req[r].pc \in DbPcs
    /\ Respond(r, 500)
    /\ UNCHANGED <<config, includeResultMetadata, users, gift_cards, user_redeems,
                   verify_email, clock, randomCount, mailbox, jwts>>

-----------------------------------------------------------------------------
(* The gift card routes *)

RAW_KEY_LENGTH == 15

SEGMENT_SIZE == 5

STORAGE_EXTENSION_DAYS == 30

IsAlnum(c) == c \in Range(LowerChars) \cup Range(UpperChars) \cup Range(DigitChars)

formatKey(raw) ==
    Slice(raw, 0, SEGMENT_SIZE) \o <<"-">> \o
    Slice(raw, SEGMENT_SIZE, SEGMENT_SIZE * 2) \o <<"-">> \o
    Slice(raw, SEGMENT_SIZE * 2, Len(raw))

\* normalizeCardNumber; a non-string card number is the empty sequence here
normalizeCardNumber(value) ==
    IF Len(Trim(value)) = 0 THEN Err(400)
    ELSE LET compact == ToUpperCase(SelectSeq(value, IsAlnum))
         IN IF Len(compact) # RAW_KEY_LENGTH THEN Err(400) ELSE Ok(formatKey(compact))

\* computeStorageExpiryDate, at time now
computeStorageExpiryDate(now) == toChineseIsoString(now + STORAGE_EXTENSION_DAYS * 24)

\* used_by of a card nobody claimed
NoUsedBy == [user_id |-> 0, email |-> <<>>]

\* the filter {card_number, used: false} of the claiming update
ClaimFilter(cardNumber, doc) == doc.card_number = cardNumber /\ doc.used = FALSE

\* the $set of the claiming update
ClaimUpdate(userId, user, nowIsoCn) ==
    [used_by |-> [user_id |-> userId, email |-> user.email],
     updated_at |-> nowIsoCn]

\* updatedStorageAll; giftCardResult.storage is undefined on a ModifyResult
UpdatedStorageAll(giftCardResult, user) ==
    Minus(Plus(IF IsDoc(giftCardResult.doc) THEN giftCardResult.doc.storage ELSE NaN,
               user.storage_all),
          user.storage_used)

\* POST /gift-cards/redeem: validation, then usersCollection().findOne is awaited
StartRedeem(r, user_id, card_number) ==
    /\ CanStart(r)
    /\ LET cardNumber == normalizeCardNumber(card_number)
       IN IF ~ObjectIdIsValid(user_id) \/ ~cardNumber.ok
          THEN req' = [req EXCEPT ![r] =
                   [op |-> "redeem", pc |-> "done", status |-> 400,
                    userId |-> user_id, cardNumber |-> <<>>]]
          ELSE req' = [req EXCEPT ![r] =
                   [op |-> "redeem", pc |-> "findUser", status |-> 0,
                    userId |-> user_id, cardNumber |-> cardNumber.value,
                    storageExpiredAt |-> computeStorageExpiryDate(clock),
                    user |-> NoDoc, nowIsoCn |-> NoDate,
                    giftCardResult |-> FindOneAndUpdateResult(NoDoc)]]
    /\ UNCHANGED <<config, includeResultMetadata, users, gift_cards, user_redeems,
                   verify_email, clock, randomCount, mailbox, jwts>>

\* findOne({_id: userId}) resolves
RedeemFindUser(r) ==
    /\ req[r].op = "redeem" /\ req[r].pc = "findUser"
    /\ LET user == FindById(users, req[r].userId)
       IN IF ~IsDoc(user)
          THEN Respond(r, 404)
          ELSE Step(r, [pc |-> "claimCard", user |-> user,
                        nowIsoCn |-> toChineseIsoString(clock)])
    /\ UNCHANGED <<config, includeResultMetadata, users, gift_cards, user_redeems,
                   verify_email, clock, randomCount, mailbox, jwts>>

\* giftCardsCollection().findOneAndUpdate({card_number, used: false}, ...)
RedeemClaimCard(r) ==
    /\ req[r].op = "redeem" /\ req[r].pc = "claimCard"
    /\ LET Match(doc) == ClaimFilter(req[r].cardNumber, doc)
           found == FindFirst(gift_cards, {i \in DOMAIN gift_cards : Match(gift_cards[i])})
           after == IF IsDoc(found)
                    THEN Assign(found, ClaimUpdate(req[r].userId, req[r].user,
                                                   req[r].nowIsoCn))
                    ELSE NoDoc
           giftCardResult == FindOneAndUpdateResult(after)
       IN /\ gift_cards' = IF IsDoc(found)
                           THEN [gift_cards EXCEPT ![found._id] = after]
                           ELSE gift_cards
          /\ IF ~giftCardResult.truthy
             THEN Step(r, [pc |-> "checkUsed"])
             ELSE Step(r, [pc |-> "insertRedeem", giftCardResult |-> giftCardResult])
    /\ UNCHANGED <<config, includeResultMetadata, users, user_redeems,
                   verify_email, clock, randomCount, mailbox, jwts>>

\* findOne({card_number, used: true}) resolves: 404 or 409
RedeemCheckUsed(r) ==
    /\ req[r].op = "redeem" /\ req[r].pc = "checkUsed"
    /\ LET Match(doc) == doc.card_number = req[r].cardNumber /\ doc.used = TRUE
           existingCard == FindFirst(gift_cards,
                                     {i \in DOMAIN gift_cards : Match(gift_cards[i])})
       IN IF ~IsDoc(existingCard) THEN Respond(r, 404) ELSE Respond(r, 409)
    /\ UNCHANGED <<config, includeResultMetadata, users, gift_cards, user_redeems,
                   verify_email, clock, randomCount, mailbox, jwts>>

\* userRedeemsCollection().insertOne(redeemDoc)
RedeemInsert(r) ==
    /\ req[r].op = "redeem" /\ req[r].pc = "insertRedeem"
    /\ LET result == req[r].giftCardResult
           user == req[r].user
           redeemDoc ==
               [_id |-> 0,
                card_number |-> req[r].cardNumber,
                gift_card_id |-> result.doc._id,
                user_id |-> req[r].userId,
                user_email |-> user.email,
                user_snapshot |-> [email |-> user.email,
                                   storage_all |-> user.storage_all,
                                   storage_used |-> user.storage_used],
                storage_allocated |->
                    IF IsDoc(result.doc) THEN result.doc.storage ELSE NaN,
                storage_expired_at |-> req[r].storageExpiredAt,
                redeemed_at |-> req[r].nowIsoCn]
       IN user_redeems' = InsertOne(user_redeems, redeemDoc)
    /\ Step(r, [pc |-> "updateUser"])
    /\ UNCHANGED <<config, includeResultMetadata, users, gift_cards,
                   verify_email, clock, randomCount, mailbox, jwts>>

\* usersCollection().findOneAndUpdate({_id: userId}, {$set: ...}); res.json
RedeemUpdateUser(r) ==
    /\ req[r].op = "redeem" /\ req[r].pc = "updateUser"
    /\ LET updates ==
               [storage_all |-> UpdatedStorageAll(req[r].giftCardResult, req[r].user),
                storage_expired_at |-> req[r].storageExpiredAt,
                updated_at |-> toChineseIsoString(clock)]
           after == UpdateById(users, req[r].userId, updates)
           userUpdate == FindOneAndUpdateResult(FindById(after, req[r].userId))
       IN /\ users' = after
          /\ req' = [req EXCEPT ![r] =
                 Answered(r, [status |-> 200, userSummary |-> userUpdate.value])]
    /\ UNCHANGED <<config, includeResultMetadata, gift_cards, user_redeems,
                   verify_email, clock, randomCount, mailbox, jwts>>


-----------------------------------------------------------------------------
(* The users routes: PUT /users/:id *)

\* authenticateRequest accepts a bearer token that jwt.verify accepts: one
\* signed by this server.  A token is modelled by its sub, 0 is no token.
JwtVerify(auth) == auth \in jwts

\* the filter {_id: payload.sub, deleted: false} of authenticateRequest
FindAuthUser(auth) ==
    LET user == FindById(users, auth)
    IN IF IsDoc(user) /\ user.deleted = FALSE THEN user ELSE NoDoc

\* PUT /users/:id arrives: authenticateRequest verifies the token and awaits
\* the user it names
StartPut(r, auth, id, payload) ==
    /\ CanStart(r)
    /\ req' = [req EXCEPT ![r] =
           [op |-> "put", pc |-> IF JwtVerify(auth) THEN "authenticate" ELSE "done",
            status |-> IF JwtVerify(auth) THEN 0 ELSE 401,
            auth |-> auth, id |-> id, payload |-> payload,
            updates |-> <<>>]]
    /\ UNCHANGED <<config, includeResultMetadata, users, gift_cards, user_redeems,
                   verify_email, clock, randomCount, mailbox, jwts>>

\* authenticateRequest's findOne resolves; the handler runs up to its findOne
PutAuthenticate(r) ==
    /\ req[r].op = "put" /\ req[r].pc = "authenticate"
    /\ LET authUser == FindAuthUser(req[r].auth)
       IN IF ~IsDoc(authUser) THEN Respond(r, 401)
          ELSE IF ~ObjectIdIsValid(req[r].id) THEN Respond(r, 400)
          ELSE IF ensureSelfAccess(req[r].id, authUser) # 0
               THEN Respond(r, ensureSelfAccess(req[r].id, authUser))
          ELSE Step(r, [pc |-> "findCurrent"])
    /\ UNCHANGED <<config, includeResultMetadata, users, gift_cards, user_redeems,
                   verify_email, clock, randomCount, mailbox, jwts>>

\* findOne({_id: userId}) resolves; buildUpdateDocument validates against it
PutFindCurrent(r) ==
    /\ req[r].op = "put" /\ req[r].pc = "findCurrent"
    /\ LET current == FindById(users, req[r].id)
           updates == buildUpdateDocument(req[r].payload, current, clock)
       IN IF ~IsDoc(current) THEN Respond(r, 404)
          ELSE IF ~updates.ok THEN Respond(r, updates.status)
          ELSE Step(r, [pc |-> "update", updates |-> updates.value])
    /\ UNCHANGED <<config, includeResultMetadata, users, gift_cards, user_redeems,
                   verify_email, clock, randomCount, mailbox, jwts>>

\* findOneAndUpdate({_id: userId}, {$set: updates}) resolves;
\* toUserResponse(result.value) throws a TypeError when result.value is not
\* a document
PutUpdate(r) ==
    /\ req[r].op = "put" /\ req[r].pc = "update"
    /\ LET after == UpdateById(users, req[r].id, req[r].updates)
           result == FindOneAndUpdateResult(FindById(after, req[r].id))
       IN /\ users' = after
          /\ Respond(r, IF IsDoc(result.value) THEN 200 ELSE 500)
    /\ UNCHANGED <<config, includeResultMetadata, gift_cards, user_redeems,
                   verify_email, clock, randomCount, mailbox, jwts>>

-----------------------------------------------------------------------------
(* The users routes: insertUser, POST /users *)

\* the filter {email} of insertUser, authenticateUser and request-verification
FindByEmail(email) ==
    LET Match(doc) == doc.email = email
    IN FindFirst(users, {i \in DOMAIN users : Match(users[i])})

\* POST /users arrives: authenticateRequest verifies the token and awaits the
\* user it names
StartCreate(r, auth, payload) ==
    /\ CanStart(r)
    /\ req' = [req EXCEPT ![r] =
           [op |-> "create", pc |-> IF JwtVerify(auth) THEN "authenticate" ELSE "done",
            status |-> IF JwtVerify(auth) THEN 0 ELSE 401,
            auth |-> auth, payload |-> payload, doc |-> NoDoc]]
    /\ UNCHANGED <<config, includeResultMetadata, users, gift_cards, user_redeems,
                   verify_email, clock, randomCount, mailbox, jwts>>

\* authenticateRequest's findOne resolves; insertUser builds the document and
\* awaits findOne({email})
CreateAuthenticate(r) ==
    /\ req[r].op = "create" /\ req[r].pc = "authenticate"
    /\ LET authUser == FindAuthUser(req[r].auth)
           doc == createUserDocument(req[r].payload, clock)
       IN IF ~IsDoc(authUser) THEN Respond(r, 401)
          ELSE IF ~doc.ok THEN Respond(r, doc.status)
          ELSE Step(r, [pc |-> "findExisting", doc |-> doc.value])
    /\ UNCHANGED <<config, includeResultMetadata, users, gift_cards, user_redeems,
                   verify_email, clock, randomCount, mailbox, jwts>>

\* insertUser: findOne({email: doc.email}) resolves
InsertUserFindExisting(r) ==
    /\ req[r].op \in {"create", "requestVerification"} /\ req[r].pc = "findExisting"
    /\ IF IsDoc(FindByEmail(req[r].doc.email))
       THEN Respond(r, 409)
       ELSE Step(r, [pc |-> "insertUser"])
    /\ UNCHANGED <<config, includeResultMetadata, users, gift_cards, user_redeems,
                   verify_email, clock, randomCount, mailbox, jwts>>

\* POST /users: insertOne(doc) resolves and the request is answered 201
CreateInsert(r) ==
    /\ req[r].op = "create" /\ req[r].pc = "insertUser"
    /\ users' = InsertOne(users, req[r].doc)
    /\ Respond(r, 201)
    /\ UNCHANGED <<config, includeResultMetadata, gift_cards, user_redeems,
                   verify_email, clock, randomCount, mailbox, jwts>>

-----------------------------------------------------------------------------
(* The accounts and cards the database holds when the requests start *)

EmailA == <<"a", "@", "x">>

EmailB == <<"b", "@", "x">>

\* a user as POST /users stores it at hour 0, after a login at hour 0
StoredUser(id, payload) ==
    Assign(createUserDocument(payload, 0).value,
           [_id |-> id, token |-> id, last_login_at |-> toChineseIsoString(0)])

\* a gift card as POST /gift-cards stores it at hour 0
StoredCard(id, cardNumber, storage) ==
    [_id |-> id, card_number |-> cardNumber, storage |-> storage, value |-> 1,
     used |-> FALSE, used_by |-> NoUsedBy,
     created_at |-> toChineseIsoString(0), updated_at |-> toChineseIsoString(0)]

RawCard1 == <<"a","b","c","d","e","f","g","h","i","j","k","l","m","n","1">>

RawCard2 == <<"A","B","C","D","E","-","F","G","H","I","J","-","K","L","M","N","2">>

RawCard3 == <<"A","B","C","D","E","-","F","G","H","I","J","-","K","L","M","N","3">>

RawCardShort == <<"A","B","C","D","E">>

\* storage_all and storage_used of the first account
InitStorage == {<<2, 0>>, <<2, 2>>}

InitRedeem ==
    /\ config = DefaultConfig
    /\ includeResultMetadata \in BOOLEAN
    /\ \E st \in InitStorage :
         users = << StoredUser(1, [email |-> EmailA, password |-> "secret1",
                                   storage_all |-> st[1], storage_used |-> st[2]]),
                    StoredUser(2, [email |-> EmailB, password |-> "secret2"]) >>
    /\ gift_cards = << StoredCard(1, normalizeCardNumber(RawCard1).value, 1),
                       StoredCard(2, normalizeCardNumber(RawCard2).value, 2) >>
    /\ user_redeems = <<>>
    /\ verify_email = {}
    /\ clock = 0
    /\ req = [r \in RedeemReqIds |-> Idle]
    /\ randomCount = 0
    /\ mailbox = {}
    /\ jwts = {1, 2}

RedeemUserIds == {0, 1, 2, 3}

RedeemCards == {RawCard1, RawCard2, RawCard3, RawCardShort}

RedeemPutPayloads ==
    {[storage_all |-> 5], [storage_used |-> 1], [storage_used |-> NaN]}

NextRedeem ==
    \/ \E r \in RedeemReqIds, u \in RedeemUserIds, c \in RedeemCards : StartRedeem(r, u, c)
    \/ \E r \in RedeemReqIds : RedeemFindUser(r)
    \/ \E r \in RedeemReqIds : RedeemClaimCard(r)
    \/ \E r \in RedeemReqIds : RedeemCheckUsed(r)
    \/ \E r \in RedeemReqIds : RedeemInsert(r)
    \/ \E r \in RedeemReqIds : RedeemUpdateUser(r)
    \/ \E r \in RedeemReqIds, p \in RedeemPutPayloads : StartPut(r, 1, 1, p)
    \/ \E r \in RedeemReqIds : PutAuthenticate(r)
    \/ \E r \in RedeemReqIds : PutFindCurrent(r)
    \/ \E r \in RedeemReqIds : PutUpdate(r)
    \/ \E r \in RedeemReqIds : DbError(r)

SpecRedeem == InitRedeem /\ [][NextRedeem]_vars

-----------------------------------------------------------------------------
(* Gift card redemption: the claims *)

CardNumbers == {gift_cards[i].card_number : i \in DOMAIN gift_cards}

\* the redeem requests answered 200 for a card number
Redeemed(c) ==
    {r \in DOMAIN req : req[r].op = "redeem" /\ req[r].status = 200
                        /\ req[r].cardNumber = c}

\* C1: a gift card is redeemed at most once: for every card number at most
\* one redeem request succeeds, whoever sends the requests and however they
\* interleave.
C1_RedeemedAtMostOnce == \A c \in CardNumbers : Cardinality(Redeemed(c)) <= 1

\* the user of a redeem record holds the quota that record granted
Credited(rd) ==
    /\ rd.user_id \in DOMAIN users
    /\ users[rd.user_id].storage_all =
         Minus(Plus(rd.storage_allocated, rd.user_snapshot.storage_all),
               rd.user_snapshot.storage_used)

\* C2: redemption is all-or-nothing: in every reachable state a gift card
\* carries a claim (used_by) if and only if the matching redeem record exists
\* and the claiming user's quota is credited.
C2_AllOrNothing ==
    \A i \in DOMAIN gift_cards :
        (gift_cards[i].used_by # NoUsedBy) <=>
            \E j \in DOMAIN user_redeems :
                /\ user_redeems[j].card_number = gift_cards[i].card_number
                /\ user_redeems[j].user_id = gift_cards[i].used_by.user_id
                /\ Credited(user_redeems[j])

\* C3: every user document satisfies storage_used <= storage_all in every
\* reachable state.
C3_StorageInvariant ==
    \A i \in DOMAIN users : Le(users[i].storage_used, users[i].storage_all)

\* the document a request leaves when it runs alone on the document doc
SerialEffect(doc, request) ==
    IF request.op = "redeem"
    THEN LET Match(card) == card.card_number = request.cardNumber
             card == FindFirst(gift_cards,
                              {i \in DOMAIN gift_cards : Match(gift_cards[i])})
         IN Assign(doc, [storage_all |->
                Minus(Plus(card.storage, doc.storage_all), doc.storage_used)])
    ELSE LET updates == buildUpdateDocument(request.payload, doc, 0)
         IN IF updates.ok THEN Assign(doc, updates.value) ELSE doc

\* the second account as the database holds it when the requests start
InitialUser2 == StoredUser(2, [email |-> EmailB, password |-> "secret2"])

\* request r changed the quota of the second account and was answered 200
ChangedUser2(r) ==
    /\ req[r].status = 200
    /\ \/ req[r].op = "redeem" /\ req[r].userId = 2
       \/ req[r].op = "put" /\ req[r].id = 2 /\ HasOwn(req[r].payload, "storage_all")

\* C4: quota changes behave as atomic updates: when two operations that
\* change one user's storage_all have both completed, the stored storage_all
\* is the one some serial order of the two leaves; no update is lost.
C4_NoLostUpdate ==
    \A r1, r2 \in DOMAIN req :
        ( /\ r1 < r2
          /\ \A r \in DOMAIN req : req[r].pc \in {"idle", "done"}
          /\ \A r \in DOMAIN req : req[r].pc = "done" => r \in {r1, r2}
          /\ ChangedUser2(r1) /\ ChangedUser2(r2)
          /\ (req[r1].op = "redeem" /\ req[r2].op = "redeem")
                => req[r1].cardNumber # req[r2].cardNumber )
        => users[2].storage_all \in
             { SerialEffect(SerialEffect(InitialUser2, req[r1]), req[r2]).storage_all,
               SerialEffect(SerialEffect(InitialUser2, req[r2]), req[r1]).storage_all }


-----------------------------------------------------------------------------
(* User creation and update: the specification and the claims *)

\* requests served by the user specification
MaxUsersReq == 3

UsersReqIds == 1..MaxUsersReq

RawEmailA == <<" ", "A", "@", "x">>

BadEmail == <<"@", "x">>

\* the administrator, whose token the requests carry
InitUsers ==
    /\ config = DefaultConfig
    /\ includeResultMetadata \in BOOLEAN
    /\ users = << StoredUser(1, [email |-> <<"r", "@", "x">>, password |-> "secret0",
                                 role |-> "admin"]) >>
    /\ gift_cards = <<>>
    /\ user_redeems = <<>>
    /\ verify_email = {}
    /\ clock = 0
    /\ req = [r \in UsersReqIds |-> Idle]
    /\ randomCount = 0
    /\ mailbox = {}
    /\ jwts = {1}

CreatePayloads ==
    {[email |-> EmailA, password |-> "secret1"],
     [email |-> RawEmailA, password |-> "secret2", storage_all |-> 2, storage_used |-> 1],
     [email |-> EmailB, password |-> "secret1", storage_all |-> 1, storage_used |-> 2],
     [email |-> EmailB, password |-> "secret1"],
     [email |-> BadEmail, password |-> "secret1"],
     [email |-> EmailA, password |-> "short"]}

UsersPutPayloads ==
    {[email |-> RawEmailA], [password |-> "secret3"], [storage_all |-> 1],
     [storage_used |-> 2]}

NextUsers ==
    \/ \E r \in UsersReqIds, a \in {0, 1}, p \in CreatePayloads : StartCreate(r, a, p)
    \/ \E r \in UsersReqIds : CreateAuthenticate(r)
    \/ \E r \in UsersReqIds : InsertUserFindExisting(r)
    \/ \E r \in UsersReqIds : CreateInsert(r)
    \/ \E r \in UsersReqIds, id \in {2, 3}, p \in UsersPutPayloads : StartPut(r, 1, id, p)
    \/ \E r \in UsersReqIds : PutAuthenticate(r)
    \/ \E r \in UsersReqIds : PutFindCurrent(r)
    \/ \E r \in UsersReqIds : PutUpdate(r)

SpecUsers == InitUsers /\ [][NextUsers]_vars

\* C5: no two user documents have the same normalized e-mail, after any
\* sequence or interleaving of create and update requests.
C5_UniqueEmail ==
    \A i, j \in DOMAIN users : i # j => users[i].email # users[j].email


-----------------------------------------------------------------------------
(* The users routes: login *)

\* applyStorageExpiration(doc).expired, at time now
StorageExpired(doc, now) ==
    /\ doc.storage_expired_at # NoDate
    /\ doc.storage_expired_at <= toChineseIsoString(now)
    /\ ~(doc.storage_all = 0 /\ doc.storage_used = 0)

\* POST /users/login arrives: authenticateUser validates and awaits findOne
StartLogin(r, email, password) ==
    /\ CanStart(r)
    /\ LET e == normalizeEmail(email)
           p == parsePassword(password)
       IN req' = [req EXCEPT ![r] =
              IF ~e.ok \/ ~p.ok
              THEN [op |-> "login", pc |-> "done", status |-> 400,
                    email |-> <<>>, password |-> password]
              ELSE [op |-> "login", pc |-> "findLogin", status |-> 0,
                    email |-> e.value, password |-> p.value,
                    user |-> NoDoc, lastLogin |-> NoDate]]
    /\ UNCHANGED <<config, includeResultMetadata, users, gift_cards, user_redeems,
                   verify_email, clock, randomCount, mailbox, jwts>>

\* authenticateUser: findOne({email}) resolves; refreshStorageIfExpired
\* awaits its update, or recordLastLoginTimestamp awaits its own
LoginFind(r) ==
    /\ req[r].op = "login" /\ req[r].pc = "findLogin"
    /\ LET user == FindByEmail(req[r].email)
       IN IF ~IsDoc(user) THEN Respond(r, 401)
          ELSE IF user.deleted \/ user.password # req[r].password THEN Respond(r, 401)
          ELSE IF StorageExpired(user, clock)
               THEN Step(r, [pc |-> "refreshStorage", user |-> user])
          ELSE Step(r, [pc |-> "recordLogin", user |-> user,
                        lastLogin |-> toChineseIsoString(clock)])
    /\ UNCHANGED <<config, includeResultMetadata, users, gift_cards, user_redeems,
                   verify_email, clock, randomCount, mailbox, jwts>>

\* refreshStorageIfExpired: updateOne zeroes the quota
LoginRefresh(r) ==
    /\ req[r].op = "login" /\ req[r].pc = "refreshStorage"
    /\ users' = UpdateById(users, req[r].user._id,
                           [storage_all |-> 0, storage_used |-> 0,
                            updated_at |-> toChineseIsoString(clock)])
    /\ Step(r, [pc |-> "recordLogin", lastLogin |-> toChineseIsoString(clock)])
    /\ UNCHANGED <<config, includeResultMetadata, gift_cards, user_redeems,
                   verify_email, clock, randomCount, mailbox, jwts>>

\* recordLastLoginTimestamp: updateOne({_id}, {$set: {last_login_at}}) resolves;
\* issueAuthTokenForUser signs the token and awaits persistUserToken
RecordLogin(r) ==
    /\ req[r].op \in {"login", "register"} /\ req[r].pc = "recordLogin"
    /\ users' = UpdateById(users, req[r].user._id, [last_login_at |-> req[r].lastLogin])
    /\ Step(r, [pc |-> "persistToken"])
    /\ UNCHANGED <<config, includeResultMetadata, gift_cards, user_redeems,
                   verify_email, clock, randomCount, mailbox, jwts>>

\* persistUserToken: updateOne({_id}, {$set: {token}}) resolves; the auth token
\* is sent with the answer, 200 for a login and 201 for a registration
PersistToken(r) ==
    /\ req[r].op \in {"login", "register"} /\ req[r].pc = "persistToken"
    /\ LET id == req[r].user._id
       IN IF id \notin DOMAIN users
          THEN /\ Respond(r, 404)
               /\ UNCHANGED <<users, jwts>>
          ELSE /\ users' = UpdateById(users, id, [token |-> id])
               /\ jwts' = jwts \cup {id}
               /\ req' = [req EXCEPT ![r] =
                      Answered(r, [status |-> IF req[r].op = "login" THEN 200 ELSE 201,
                                   authToken |-> id])]
    /\ UNCHANGED <<config, includeResultMetadata, gift_cards, user_redeems,
                   verify_email, clock, randomCount, mailbox>>

-----------------------------------------------------------------------------
(* The users routes: POST /users/register/request-verification *)

\* the lifetime of a verification token, in hours
EMAIL_VERIFICATION_TOKEN_TTL_MS == 24

\* persistEmailVerificationRequest up to its first await: the token is drawn
\* (randomBytes: a value never drawn before), the dates are computed and
\* deleteMany is awaited
PersistStart(targetId) ==
    [pc |-> "deleteRequests", targetId |-> targetId,
     token |-> randomCount + 1,
     issuedAt |-> clock,
     expiresAt |-> toChineseIsoString(clock + EMAIL_VERIFICATION_TOKEN_TTL_MS),
     now |-> toChineseIsoString(clock)]

\* the request arrives: validation, then findOne({email}) is awaited
StartRequestVerification(r, email, password) ==
    /\ CanStart(r)
    /\ LET e == normalizeEmail(email)
           p == parsePassword(password)
       IN req' = [req EXCEPT ![r] =
              IF ~e.ok \/ ~p.ok
              THEN [op |-> "requestVerification", pc |-> "done", status |-> 400,
                    email |-> <<>>, password |-> password]
              ELSE [op |-> "requestVerification", pc |-> "findTarget", status |-> 0,
                    email |-> e.value, password |-> p.value,
                    doc |-> NoDoc, updates |-> <<>>, targetId |-> 0, token |-> 0,
                    issuedAt |-> NoDate, expiresAt |-> NoDate, now |-> NoDate]]
    /\ UNCHANGED <<config, includeResultMetadata, users, gift_cards, user_redeems,
                   verify_email, clock, randomCount, mailbox, jwts>>

\* findOne({email}) resolves: 409 for a verified account, the update of an
\* unverified one, or insertUser for a new one
RequestVerificationFindTarget(r) ==
    /\ req[r].op = "requestVerification" /\ req[r].pc = "findTarget"
    /\ LET targetUser == FindByEmail(req[r].email)
           payload == [email |-> req[r].email, password |-> req[r].password,
                       email_verified |-> "false", email_verified_at |-> NoDate]
           updates == buildUpdateDocument(payload, targetUser, clock)
           doc == createUserDocument(payload, clock)
       IN IF IsDoc(targetUser)
          THEN IF targetUser.email_verified THEN Respond(r, 409)
               ELSE IF ~updates.ok THEN Respond(r, updates.status)
               ELSE Step(r, [pc |-> "updateTarget", targetId |-> targetUser._id,
                             updates |-> Assign(updates.value,
                                                [email_verified |-> FALSE,
                                                 email_verified_at |-> NoDate])])
          ELSE IF ~doc.ok THEN Respond(r, doc.status)
               ELSE Step(r, [pc |-> "findExisting", doc |-> doc.value])
    /\ UNCHANGED <<config, includeResultMetadata, users, gift_cards, user_redeems,
                   verify_email, clock, randomCount, mailbox, jwts>>

\* findOneAndUpdate({_id: targetUser._id}, {$set: updates}) resolves;
\* targetUser = result.value, and targetUser._id throws a TypeError when
\* result.value is not a document
RequestVerificationUpdateTarget(r) ==
    /\ req[r].op = "requestVerification" /\ req[r].pc = "updateTarget"
    /\ LET after == UpdateById(users, req[r].targetId, req[r].updates)
           result == FindOneAndUpdateResult(FindById(after, req[r].targetId))
       IN /\ users' = after
          /\ IF ~IsDoc(result.value)
             THEN Respond(r, 500) /\ UNCHANGED randomCount
             ELSE Step(r, PersistStart(result.value._id))
                  /\ randomCount' = randomCount + 1
    /\ UNCHANGED <<config, includeResultMetadata, gift_cards, user_redeems,
                   verify_email, clock, mailbox, jwts>>

\* insertUser: insertOne(doc) resolves; persistEmailVerificationRequest starts
RequestVerificationInsertUser(r) ==
    /\ req[r].op = "requestVerification" /\ req[r].pc = "insertUser"
    /\ users' = InsertOne(users, req[r].doc)
    /\ Step(r, PersistStart(Len(users) + 1))
    /\ randomCount' = randomCount + 1
    /\ UNCHANGED <<config, includeResultMetadata, gift_cards, user_redeems,
                   verify_email, clock, mailbox, jwts>>

\* deleteMany({user_id}) resolves
RequestVerificationDelete(r) ==
    /\ req[r].op = "requestVerification" /\ req[r].pc = "deleteRequests"
    /\ verify_email' = {d \in verify_email : d.user_id # req[r].targetId}
    /\ Step(r, [pc |-> "insertRequest"])
    /\ UNCHANGED <<config, includeResultMetadata, users, gift_cards, user_redeems,
                   clock, randomCount, mailbox, jwts>>

\* insertOne({user_id, email, token, expires_at, created_at, used_at}) resolves;
\* sendEmailVerificationEmail is awaited
RequestVerificationInsert(r) ==
    /\ req[r].op = "requestVerification" /\ req[r].pc = "insertRequest"
    /\ verify_email' = verify_email \cup
           {[_id |-> req[r].token,
             user_id |-> req[r].targetId,
             email |-> req[r].email,
             token |-> req[r].token,
             expires_at |-> req[r].expiresAt,
             created_at |-> req[r].now,
             used_at |-> NoDate]}
    /\ Step(r, [pc |-> "sendEmail"])
    /\ UNCHANGED <<config, includeResultMetadata, users, gift_cards, user_redeems,
                   clock, randomCount, mailbox, jwts>>

\* MailerSend accepts the e-mail: the token reaches the mailbox, answer 202
RequestVerificationSend(r) ==
    /\ req[r].op = "requestVerification" /\ req[r].pc = "sendEmail"
    /\ mailbox' = mailbox \cup {[token |-> req[r].token, issuedAt |-> req[r].issuedAt]}
    /\ req' = [req EXCEPT ![r] = Answered(r, [status |-> 202])]
    /\ UNCHANGED <<config, includeResultMetadata, users, gift_cards, user_redeems,
                   verify_email, clock, randomCount, jwts>>

\* MailerSend fails: sendMailersendEmail throws 502
RequestVerificationSendFails(r) ==
    /\ req[r].op = "requestVerification" /\ req[r].pc = "sendEmail"
    /\ req' = [req EXCEPT ![r] = Answered(r, [status |-> 502])]
    /\ UNCHANGED <<config, includeResultMetadata, users, gift_cards, user_redeems,
                   verify_email, clock, randomCount, mailbox, jwts>>

-----------------------------------------------------------------------------
(* The users routes: POST /users/register *)

\* findOne({token}) on verify_email
FindRecord(token) ==
    IF \E d \in verify_email : d.token = token
    THEN CHOOSE d \in verify_email : d.token = token
    ELSE NoDoc

\* the expiry test of consumeEmailVerificationToken with < for <=
TokenExpiredMutant(expiration, now) == expiration = NoDate \/ expiration < now

\* the expiry test of consumeEmailVerificationToken
TokenExpired(expiration, now) == expiration = NoDate \/ expiration <= now

\* the request arrives: parseVerificationToken, then findOne({token}) is awaited
StartRegister(r, token) ==
    /\ CanStart(r)
    /\ req' = [req EXCEPT ![r] =
           IF ~parseVerificationToken(token).ok
           THEN [op |-> "register", pc |-> "done", status |-> 400,
                 verificationToken |-> token, arrived |-> clock]
           ELSE [op |-> "register", pc |-> "findRecord", status |-> 0,
                 verificationToken |-> token, arrived |-> clock,
                 record |-> NoDoc, now |-> NoDate, user |-> NoDoc,
                 verifyTimestamp |-> NoDate, lastLogin |-> NoDate]]
    /\ UNCHANGED <<config, includeResultMetadata, users, gift_cards, user_redeems,
                   verify_email, clock, randomCount, mailbox, jwts>>

\* consumeEmailVerificationToken: findOne({token}) resolves; an expired record
\* is deleted, else the user of the record is looked up
RegisterFindRecord(r) ==
    /\ req[r].op = "register" /\ req[r].pc = "findRecord"
    /\ LET record == FindRecord(req[r].verificationToken)
           now == toChineseIsoString(clock)
       IN IF ~IsDoc(record) THEN Respond(r, 400)
          ELSE IF TokenExpired(record.expires_at, now)
               THEN Step(r, [pc |-> "deleteRecord", record |-> record, now |-> now])
          ELSE Step(r, [pc |-> "findRecordUser", record |-> record, now |-> now])
    /\ UNCHANGED <<config, includeResultMetadata, users, gift_cards, user_redeems,
                   verify_email, clock, randomCount, mailbox, jwts>>

\* deleteOne({_id: record._id}) resolves and the 400 is thrown
RegisterDeleteRecord(r) ==
    /\ req[r].op = "register" /\ req[r].pc = "deleteRecord"
    /\ verify_email' = {d \in verify_email : d._id # req[r].record._id}
    /\ Respond(r, 400)
    /\ UNCHANGED <<config, includeResultMetadata, users, gift_cards, user_redeems,
                   clock, randomCount, mailbox, jwts>>

\* usersCollection().findOne({_id: userId, email: record.email}) resolves
RegisterFindUser(r) ==
    /\ req[r].op = "register" /\ req[r].pc = "findRecordUser"
    /\ LET found == FindById(users, req[r].record.user_id)
           user == IF IsDoc(found) /\ found.email = req[r].record.email
                   THEN found ELSE NoDoc
       IN IF ~IsDoc(user)
          THEN Step(r, [pc |-> "deleteRecord"])
          ELSE Step(r, [pc |-> "markUsed", user |-> user])
    /\ UNCHANGED <<config, includeResultMetadata, users, gift_cards, user_redeems,
                   verify_email, clock, randomCount, mailbox, jwts>>

\* findOneAndUpdate({_id: record._id}, {$set: {used_at: now}}) resolves; back
\* in the handler a verified user is answered 200 "already active", else the
\* update of the user is awaited
RegisterMarkUsed(r) ==
    /\ req[r].op = "register" /\ req[r].pc = "markUsed"
    /\ LET found == \E d \in verify_email : d._id = req[r].record._id
           after == IF found
                    THEN Assign(CHOOSE d \in verify_email : d._id = req[r].record._id,
                                [used_at |-> req[r].now])
                    ELSE NoDoc
           result == FindOneAndUpdateResult(after)
       IN /\ verify_email' =
                IF found
                THEN {d \in verify_email : d._id # req[r].record._id} \cup {after}
                ELSE verify_email
          /\ IF ~result.truthy THEN Respond(r, 400)
             ELSE IF req[r].user.email_verified THEN Respond(r, 200)
             ELSE Step(r, [pc |-> "verifyUser",
                           verifyTimestamp |-> toChineseIsoString(clock)])
    /\ UNCHANGED <<config, includeResultMetadata, users, gift_cards, user_redeems,
                   clock, randomCount, mailbox, jwts>>

\* findOneAndUpdate({_id: user._id}, {$set: {email_verified: true, ...}})
\* resolves; recordLastLoginTimestamp(result) throws 500 when result has no
\* _id, else it awaits its updateOne
RegisterVerifyUser(r) ==
    /\ req[r].op = "register" /\ req[r].pc = "verifyUser"
    /\ LET after == UpdateById(users, req[r].user._id,
                               [email_verified |-> TRUE,
                                email_verified_at |-> req[r].verifyTimestamp])
           result == FindOneAndUpdateResult(FindById(after, req[r].user._id))
       IN /\ users' = after
          /\ IF ~result.truthy THEN Respond(r, 404)
             ELSE IF ~IsDoc(result.doc) THEN Respond(r, 500)
             ELSE Step(r, [pc |-> "recordLogin", user |-> result.doc,
                           lastLogin |-> toChineseIsoString(clock)])
    /\ UNCHANGED <<config, includeResultMetadata, gift_cards, user_redeems,
                   verify_email, clock, randomCount, mailbox, jwts>>

-----------------------------------------------------------------------------
(* Time and the TTL index of src/services/mongoClient.js *)

\* What the TTL monitor leaves of verify_email at time now: the index is on
\* expires_at_ts with expireAfterSeconds 0, so it removes the documents whose
\* expires_at_ts is a date not after now.
TtlExpire(coll, now) ==
    {d \in coll : ~(HasOwn(d, "expires_at_ts") /\ d.expires_at_ts <= now)}

\* Time advances; the TTL monitor, which runs every minute, has run by then.
Tick ==
    /\ clock + TickHours <= MaxClock
    /\ clock' = clock + TickHours
    /\ verify_email' = TtlExpire(verify_email, clock')
    /\ UNCHANGED <<config, includeResultMetadata, users, gift_cards, user_redeems,
                   req, randomCount, mailbox, jwts>>

-----------------------------------------------------------------------------
(* Registration: the specification *)

\* requests served by the registration specification
MaxVerifyReq == 2

VerifyReqIds == 1..MaxVerifyReq

\* the account that POST /users/register/request-verification inserts at
\* hour 0 for EmailA, and the verify_email document it stores with token 1
PendingUser ==
    Assign(createUserDocument([email |-> EmailA, password |-> "secret1",
                               email_verified |-> "false",
                               email_verified_at |-> NoDate], 0).value,
           [_id |-> 2])

PendingRecord ==
    [_id |-> 1, user_id |-> 2, email |-> EmailA, token |-> 1,
     expires_at |-> toChineseIsoString(0 + EMAIL_VERIFICATION_TOKEN_TTL_MS),
     created_at |-> toChineseIsoString(0), used_at |-> NoDate]

VerifiedUser ==
    Assign(StoredUser(1, [email |-> EmailB, password |-> "secret2",
                          storage_all |-> 2, storage_used |-> 1,
                          email_verified |-> "true"]),
           [storage_expired_at |-> toChineseIsoString(0)])

\* One verified account whose quota has expired is in the database; a
\* verification of EmailA has been requested at hour 0, or none has.
InitVerify ==
    /\ config = DefaultConfig
    /\ includeResultMetadata \in BOOLEAN
    /\ gift_cards = <<>>
    /\ user_redeems = <<>>
    /\ clock = 0
    /\ req = [r \in VerifyReqIds |-> Idle]
    /\ jwts = {1}
    /\ \/ /\ users = << VerifiedUser >>
          /\ verify_email = {}
          /\ randomCount = 0
          /\ mailbox = {}
       \/ /\ users = << VerifiedUser, PendingUser >>
          /\ verify_email = {PendingRecord}
          /\ randomCount = 1
          /\ mailbox = {[token |-> 1, issuedAt |-> 0]}

VerifyInputs ==
    {<<RawEmailA, "secret1">>, <<EmailA, "secret2">>, <<EmailB, "secret1">>}

LoginInputs == {<<EmailA, "secret1">>, <<EmailB, "secret2">>}

\* the tokens a client can present: none, or one received by e-mail
KnownTokens == {0} \cup {m.token : m \in mailbox}

NextVerify ==
    \/ \E r \in VerifyReqIds, in \in VerifyInputs :
           StartRequestVerification(r, in[1], in[2])
    \/ \E r \in VerifyReqIds : RequestVerificationFindTarget(r)
    \/ \E r \in VerifyReqIds : RequestVerificationUpdateTarget(r)
    \/ \E r \in VerifyReqIds : InsertUserFindExisting(r)
    \/ \E r \in VerifyReqIds : RequestVerificationInsertUser(r)
    \/ \E r \in VerifyReqIds : RequestVerificationDelete(r)
    \/ \E r \in VerifyReqIds : RequestVerificationInsert(r)
    \/ \E r \in VerifyReqIds : RequestVerificationSend(r)
    \/ \E r \in VerifyReqIds : RequestVerificationSendFails(r)
    \/ \E r \in VerifyReqIds, t \in KnownTokens : StartRegister(r, t)
    \/ \E r \in VerifyReqIds : RegisterFindRecord(r)
    \/ \E r \in VerifyReqIds : RegisterDeleteRecord(r)
    \/ \E r \in VerifyReqIds : RegisterFindUser(r)
    \/ \E r \in VerifyReqIds : RegisterMarkUsed(r)
    \/ \E r \in VerifyReqIds : RegisterVerifyUser(r)
    \/ \E r \in VerifyReqIds, in \in LoginInputs : StartLogin(r, in[1], in[2])
    \/ \E r \in VerifyReqIds : LoginFind(r)
    \/ \E r \in VerifyReqIds : LoginRefresh(r)
    \/ \E r \in VerifyReqIds : RecordLogin(r)
    \/ \E r \in VerifyReqIds : PersistToken(r)
    \/ Tick

SpecVerify == InitVerify /\ [][NextVerify]_vars

-----------------------------------------------------------------------------
(* Registration: the properties *)

\* the account that holds email, or NoDoc
AccountOf(email) == FindByEmail(email)

\* C6: POST /users/login issues an auth token only for an e-mail whose
\* account is verified, that is, for which POST /users/register has accepted
\* a token (or which was verified from the start); requesting a verification
\* alone does not let one log in.
C6_NoLoginBeforeRegister ==
    \A r \in DOMAIN req :
        (req[r].op = "login" /\ req[r].pc = "done" /\ req[r].status = 200)
            => AccountOf(req[r].email).email_verified

\* the registrations that presented token t and were answered with success
AcceptedRegistrations(t) ==
    {r \in DOMAIN req : /\ req[r].op = "register"
                        /\ req[r].pc = "done"
                        /\ req[r].verificationToken = t
                        /\ req[r].status \in {200, 201}}

\* C7: a verification token is accepted by at most one POST /users/register;
\* every other request that presents it, later or at the same time, is
\* rejected.
C7_TokenSingleUse ==
    \A m \in mailbox : Cardinality(AcceptedRegistrations(m.token)) <= 1

\* the registration of slot r presents the token of mail m, 24 hours or more
\* after the token was issued
PresentsExpired(r, m) ==
    /\ req[r].op = "register"
    /\ req[r].verificationToken = m.token
    /\ req[r].arrived >= m.issuedAt + EMAIL_VERIFICATION_TOKEN_TTL_MS

\* C8: a POST /users/register that presents a token 24 hours or more after
\* the token was issued changes no user at any of its steps, is answered 400,
\* and when it is answered no verify_email record holds the token.
C8_TokenExpires ==
    [][\A r \in DOMAIN req : \A m \in mailbox :
          (PresentsExpired(r, m) /\ req'[r] # req[r])
              => /\ users' = users
                 /\ req'[r].pc = "done"
                      => /\ req'[r].status = 400
                         /\ ~\E d \in verify_email' : d.token = m.token]_vars

\* The only token ever issued was presented exactly 24 hours after its issue:
\* the request was answered 400, the record, which no other verification
\* request replaced, is gone, and the account is still unverified.
C8_Witness ==
    /\ randomCount = 1
    /\ verify_email = {}
    /\ \E r \in DOMAIN req : \E m \in mailbox :
          /\ PresentsExpired(r, m)
          /\ req[r].arrived = m.issuedAt + EMAIL_VERIFICATION_TOKEN_TTL_MS
          /\ req[r].pc = "done"
          /\ req[r].status = 400
    /\ \E i \in DOMAIN users : ~users[i].email_verified

\* C9: when the TTL monitor has run (it runs as time advances, in Tick), no
\* verify_email record whose expiry time has passed is left in the collection.
C9_ExpiredRemoved ==
    [][clock' # clock => \A d \in verify_email' : d.expires_at > clock']_vars

\* C10: a POST /users/register/request-verification for an e-mail that an
\* account holds changes neither users nor verify_email at its database
\* steps, and is answered 409.
C10_ExistingEmailRejected ==
    [][\A r \in DOMAIN req :
          (/\ req[r].op = "requestVerification"
           /\ req[r].pc \in {"findTarget", "updateTarget"}
           /\ req'[r] # req[r]
           /\ IsDoc(AccountOf(req[r].email)))
              => /\ users' = users
                 /\ verify_email' = verify_email
                 /\ req'[r].pc = "done" => req'[r].status = 409]_vars

-----------------------------------------------------------------------------
(* services/proxyForwarder.js: the proxy handler.  Header names and values, *)
(* paths, methods and tokens are sequences of one-character strings.  Node  *)
(* hands header names to the handler in lower case.                         *)

hopByHopHeaders ==
    {<<"c", "o", "n", "n", "e", "c", "t", "i", "o", "n">>, <<"k", "e", "e", "p", "-", "a", "l", "i", "v", "e">>, <<"p", "r", "o", "x", "y", "-", "a", "u", "t", "h", "e", "n", "t", "i", "c", "a", "t", "e">>, <<"p", "r", "o", "x", "y", "-", "a", "u", "t", "h", "o", "r", "i", "z", "a", "t", "i", "o", "n">>,
     <<"t", "e">>, <<"t", "r", "a", "i", "l", "e", "r", "s">>, <<"t", "r", "a", "n", "s", "f", "e", "r", "-", "e", "n", "c", "o", "d", "i", "n", "g">>, <<"u", "p", "g", "r", "a", "d", "e">>, <<"h", "o", "s", "t">>}

methodsWithoutBody == {<<"g", "e", "t">>, <<"h", "e", "a", "d">>}

\* String.prototype.startsWith
StartsWith(s, prefix) ==
    Len(s) >= Len(prefix) /\ SubSeq(s, 1, Len(prefix)) = prefix

\* the regular expression class [A-Za-z0-9_]
IsWordChar(c) == IsAlnum(c) \/ c = "_"

\* the characters encodeURIComponent leaves as they are
IsUnreserved(c) == IsAlnum(c) \/ c \in {"-", "_", ".", "!", "~", "*", "'", "(", ")"}

\* the escape sequences of the other characters the model uses
PercentEncoded == [c \in {" ", "/", ":"} |->
                      IF c = " " THEN <<"%", "2", "0">> ELSE IF c = "/" THEN <<"%", "2", "F">> ELSE <<"%", "3", "A">>]

RECURSIVE encodeURIComponent(_)
encodeURIComponent(s) ==
    IF s = <<>> THEN <<>>
    ELSE (IF IsUnreserved(Head(s)) THEN <<Head(s)>> ELSE PercentEncoded[Head(s)])
         \o encodeURIComponent(Tail(s))

\* the last position of the run of word characters that starts at position i
RECURSIVE KeyEnd(_, _)
KeyEnd(template, i) ==
    IF i < Len(template) /\ IsWordChar(template[i + 1])
    THEN KeyEnd(template, i + 1)
    ELSE i

\* template.replace(/:([A-Za-z0-9_]+)/g, ...) from position i on
RECURSIVE ReplaceParams(_, _, _)
ReplaceParams(template, params, i) ==
    IF i > Len(template) THEN <<>>
    ELSE IF template[i] = ":" /\ i < Len(template) /\ IsWordChar(template[i + 1])
    THEN LET j == KeyEnd(template, i + 1)
             key == SubSeq(template, i + 1, j)
         IN (IF key \in DOMAIN params
             THEN encodeURIComponent(params[key])
             ELSE <<":">> \o key)
            \o ReplaceParams(template, params, j + 1)
    ELSE <<template[i]>> \o ReplaceParams(template, params, i + 1)

\* buildUpstreamPath for a template that is a string
buildUpstreamPath(template, params) ==
    IF template = <<>> THEN <<>> ELSE ReplaceParams(template, params, 1)

normalizeTokenMutant(value) ==
    IF value = <<>> THEN <<>> ELSE <<"B", "e", "a", "r", "e", "r", " ">> \o value

normalizeToken(value) ==
    IF value = <<>> THEN <<>>
    ELSE IF StartsWith(ToLowerCase(value), <<"b", "e", "a", "r", "e", "r", " ">>) THEN value
    ELSE <<"B", "e", "a", "r", "e", "r", " ">> \o value

\* the headers a loop of buildForwardHeaders or pickResponseHeaders keeps
KeptHeaders(source) ==
    {key \in DOMAIN source :
        source[key] # <<>> /\ ToLowerCase(key) \notin hopByHopHeaders}

buildForwardHeaders(incoming, allowEnvToken) ==
    LET kept == KeptHeaders(incoming)
    IN IF allowEnvToken /\ config.defaultToken # <<>> /\ <<"a", "u", "t", "h", "o", "r", "i", "z", "a", "t", "i", "o", "n">> \notin kept
       THEN [key \in kept \cup {<<"a", "u", "t", "h", "o", "r", "i", "z", "a", "t", "i", "o", "n">>} |->
                IF key = <<"a", "u", "t", "h", "o", "r", "i", "z", "a", "t", "i", "o", "n">>
                THEN normalizeToken(config.defaultToken)
                ELSE incoming[key]]
       ELSE [key \in kept |-> incoming[key]]

pickResponseHeaders(source) == [key \in KeptHeaders(source) |-> source[key]]

shouldSendBody(method) == ToLowerCase(method) \notin methodsWithoutBody


-----------------------------------------------------------------------------
(* endpoints.js and app.js: the proxied routes *)

\* three of the endpoints of endpointGroups, with the allowEnvToken of their
\* group; no endpoint sets upstreamPath to another path, or a timeout (0)
AccountInfos ==
    [base |-> "api", path |-> <<"/", "a", "c", "c", "o", "u", "n", "t", "/", "i", "n", "f", "o", "s">>, allowEnvToken |-> TRUE, timeout |-> 0]

FilesList ==
    [base |-> "api", path |-> <<"/", "f", "i", "l", "e", "s", "/", ":", "i", "d", "P", "a", "r", "e", "n", "t", "/", "l", "i", "s", "t">>, allowEnvToken |-> TRUE,
     timeout |-> 0]

OauthToken ==
    [base |-> "oauth", path |-> <<"/", "o", "a", "u", "t", "h", "/", "t", "o", "k", "e", "n">>, allowEnvToken |-> FALSE,
     timeout |-> 0]

baseUrlMap(base) == IF base = "api" THEN config.apiBaseUrl ELSE config.oauthBaseUrl

\* proxyHandler up to its await: the request handed to axios
AxiosConfig(endpoint, request) ==
    LET resolvedPath == buildUpstreamPath(endpoint.path, request.params)
        axiosConfig ==
            [method |-> request.method,
             url |-> baseUrlMap(endpoint.base) \o resolvedPath,
             headers |-> buildForwardHeaders(request.headers, endpoint.allowEnvToken),
             params |-> request.query,
             timeout |-> IF endpoint.timeout # 0 THEN endpoint.timeout
                         ELSE config.defaultTimeout,
             clarifyTimeoutError |-> TRUE]
    IN IF shouldSendBody(request.method) /\ request.body # {}
       THEN Assign(axiosConfig, [data |-> request.body])
       ELSE axiosConfig

\* validateStatus: () => true
validateStatus(status) == TRUE

\* the code of the error axios rejects with when the timeout elapses
TimeoutErrorCode(axiosConfig) ==
    IF axiosConfig.clarifyTimeoutError THEN "ETIMEDOUT" ELSE "ECONNABORTED"

\* response.data as axios makes it from the body of the upstream response:
\* a body that is JSON text is parsed, any other stays a string
transformResponse(body) ==
    IF body = "null" THEN [type |-> "null", value |-> "null"]
    ELSE IF body = "{}" THEN [type |-> "object", value |-> "{}"]
    ELSE [type |-> "string", value |-> body]

\* the body res.send(data) writes: a string as it is, an object as its JSON
\* text, nothing for null
send(data) == IF data.type = "null" THEN "" ELSE data.value

\* what proxyHandler sends for an upstream response: the status, the picked
\* headers and res.send(response.data), or res.end() when data is undefined
proxyResponse(response) ==
    LET data == transformResponse(response.body)
    IN [status |-> response.status,
        headers |-> pickResponseHeaders(response.headers),
        body |-> IF data.type = "undefined" THEN "" ELSE send(data)]

\* the catch of proxyHandler for an error without a response, and the error
\* middleware of app.js that answers it
proxyError(error) ==
    [status |-> IF error.code = "ECONNABORTED" THEN 504 ELSE 502,
     headers |-> <<>>,
     body |-> IF error.code = "ECONNABORTED" THEN "Upstream request timed out"
              ELSE "failed"]

\* a proxied request arrives and proxyHandler awaits axios
ProxyArrives(r, endpoint, request) ==
    /\ CanStart(r)
    /\ req' = [req EXCEPT ![r] =
           [op |-> "proxy", pc |-> "upstream", status |-> 0,
            endpoint |-> endpoint, request |-> request,
            axiosConfig |-> AxiosConfig(endpoint, request)]]
    /\ UNCHANGED <<config, includeResultMetadata, users, gift_cards, user_redeems,
                   verify_email, clock, randomCount, mailbox, jwts>>

\* the upstream answers: axios resolves (validateStatus accepts the status)
\* or rejects with an error that carries the response, which the catch sends
UpstreamResponds(r, response) ==
    /\ req[r].op = "proxy" /\ req[r].pc = "upstream"
    /\ LET sent == IF validateStatus(response.status)
                   THEN proxyResponse(response)
                   ELSE [status |-> response.status, headers |-> <<>>,
                         body |-> send(transformResponse(response.body))]
       IN req' = [req EXCEPT ![r] =
              Assign(@, [pc |-> "done", status |-> sent.status,
                         upstream |-> "response", response |-> response,
                         sent |-> sent, responses |-> 1])]
    /\ UNCHANGED <<config, includeResultMetadata, users, gift_cards, user_redeems,
                   verify_email, clock, randomCount, mailbox, jwts>>

\* the upstream does not answer within axiosConfig.timeout (0: no timeout)
UpstreamTimesOut(r) ==
    /\ req[r].op = "proxy" /\ req[r].pc = "upstream"
    /\ req[r].axiosConfig.timeout > 0
    /\ LET sent == proxyError([code |-> TimeoutErrorCode(req[r].axiosConfig)])
       IN req' = [req EXCEPT ![r] =
              Assign(@, [pc |-> "done", status |-> sent.status,
                         upstream |-> "timeout", sent |-> sent, responses |-> 1])]
    /\ UNCHANGED <<config, includeResultMetadata, users, gift_cards, user_redeems,
                   verify_email, clock, randomCount, mailbox, jwts>>

\* no upstream response is obtained for another reason
UpstreamFails(r, code) ==
    /\ req[r].op = "proxy" /\ req[r].pc = "upstream"
    /\ LET sent == proxyError([code |-> code])
       IN req' = [req EXCEPT ![r] =
              Assign(@, [pc |-> "done", status |-> sent.status,
                         upstream |-> "failure", sent |-> sent, responses |-> 1])]
    /\ UNCHANGED <<config, includeResultMetadata, users, gift_cards, user_redeems,
                   verify_email, clock, randomCount, mailbox, jwts>>

-----------------------------------------------------------------------------
(* The proxy: the specification *)

\* proxyHandler keeps no state between requests: one request is followed
ProxyReqIds == {1}

\* API_TOKEN: not set, a bare token, a token that states its scheme
ApiTokens == {<<>>, <<"a", "b", "c">>, <<"B", "e", "a", "r", "e", "r", " ", "a", "b", "c">>}

\* the functions with a domain within names whose values for name n are in
\* values[n]
RECURSIVE Headers(_, _)
Headers(names, values) ==
    IF names = {} THEN {<<>>}
    ELSE LET n == CHOOSE x \in names : TRUE
             rest == Headers(names \ {n}, values)
         IN rest \cup
            {[k \in DOMAIN h \cup {n} |-> IF k = n THEN v ELSE h[k]] :
                h \in rest, v \in values[n]}

\* the headers of a request: host, and any of authorization and x-a, which
\* may be empty
RequestHeaders ==
    {h \in Headers({<<"h", "o", "s", "t">>, <<"a", "u", "t", "h", "o", "r", "i", "z", "a", "t", "i", "o", "n">>, <<"x", "-", "a">>},
                   [n \in {<<"h", "o", "s", "t">>, <<"a", "u", "t", "h", "o", "r", "i", "z", "a", "t", "i", "o", "n">>, <<"x", "-", "a">>} |->
                       IF n = <<"h", "o", "s", "t">> THEN {<<"d">>}
                       ELSE IF n = <<"a", "u", "t", "h", "o", "r", "i", "z", "a", "t", "i", "o", "n">> THEN {<<>>, <<"B", "e", "a", "r", "e", "r", " ", "c">>}
                       ELSE {<<>>, <<"v">>}]) :
        <<"h", "o", "s", "t">> \in DOMAIN h}

\* the headers of an upstream response: connection, and x-b, which may be
\* empty
ResponseHeaders ==
    {h \in Headers({<<"c", "o", "n", "n", "e", "c", "t", "i", "o", "n">>, <<"x", "-", "b">>},
                   [n \in {<<"c", "o", "n", "n", "e", "c", "t", "i", "o", "n">>, <<"x", "-", "b">>} |->
                       IF n = <<"c", "o", "n", "n", "e", "c", "t", "i", "o", "n">> THEN {<<"c", "l", "o", "s", "e">>} ELSE {<<>>, <<"v">>}]) :
        <<"c", "o", "n", "n", "e", "c", "t", "i", "o", "n">> \in DOMAIN h}

Methods == {<<"G", "E", "T">>, <<"P", "O", "S", "T">>}

\* query strings and bodies are sets of <<name, value>>
Queries == {{}, {<<"q", "1">>}}

Bodies == {{}, {<<"k", "v">>}}

\* req.params of the route of an endpoint
ParamsOf(endpoint) ==
    IF endpoint = FilesList
    THEN {[k \in {<<"i", "d", "P", "a", "r", "e", "n", "t">>} |-> v] : v \in {<<"a">>, <<"a", "/", "b">>}}
    ELSE {<<>>}

\* the media types of the bodies clients send
ContentTypes == {"application/json", "text/plain"}

\* req.body as express.json() and express.urlencoded() of app.js leave it:
\* the parsed body for their media types, an empty object for any other
ParsedBody(contentType, sentBody) ==
    IF contentType \in {"application/json", "application/x-www-form-urlencoded"}
    THEN sentBody
    ELSE {}

\* the requests on the route of an endpoint: what the client sent, and
\* req.method, req.headers, req.params, req.query and req.body
Requests(endpoint) ==
    {[method |-> method, headers |-> headers, params |-> params, query |-> query,
      contentType |-> contentType, sentBody |-> sentBody,
      body |-> ParsedBody(contentType, sentBody)] :
        method \in Methods, headers \in RequestHeaders, params \in ParamsOf(endpoint),
        query \in Queries, contentType \in ContentTypes, sentBody \in Bodies}

\* upstream responses: the body is empty, text, or the JSON text of an
\* object or of null
Responses ==
    [status : {200, 404, 500}, headers : ResponseHeaders,
     body : {"", "ok", "{}", "null"}]

InitProxy ==
    /\ \E token \in ApiTokens : config = Assign(DefaultConfig, [defaultToken |-> token])
    /\ includeResultMetadata = FALSE
    /\ users = <<>>
    /\ gift_cards = <<>>
    /\ user_redeems = <<>>
    /\ verify_email = {}
    /\ clock = 0
    /\ req = [r \in ProxyReqIds |-> Idle]
    /\ randomCount = 0
    /\ mailbox = {}
    /\ jwts = {}

NextProxy ==
    \/ \E r \in ProxyReqIds, endpoint \in {AccountInfos, FilesList, OauthToken} :
          \E request \in Requests(endpoint) : ProxyArrives(r, endpoint, request)
    \/ \E r \in ProxyReqIds, response \in Responses : UpstreamResponds(r, response)
    \/ \E r \in ProxyReqIds : UpstreamTimesOut(r)
    \/ \E r \in ProxyReqIds, code \in {"ECONNREFUSED", "ECONNRESET"} :
          UpstreamFails(r, code)

SpecProxy == InitProxy /\ [][NextProxy]_vars


-----------------------------------------------------------------------------
(* The proxy: the properties *)

\* the proxied requests that have been handed to axios
Proxied == {r \in DOMAIN req : req[r].op = "proxy"}

\* the header of that name is among headers
HasHeader(headers, name) == name \in DOMAIN headers

\* C11 as stated: a request without an Authorization header is forwarded with
\* "Bearer <API_TOKEN>" when API_TOKEN is set; an Authorization header of the
\* client is forwarded as it is; with a blank API_TOKEN none is added.
C11_DefaultToken ==
    \A r \in Proxied :
        LET incoming == req[r].request.headers
            forwarded == req[r].axiosConfig.headers
        IN /\ (~HasHeader(incoming, <<"a", "u", "t", "h", "o", "r", "i", "z", "a", "t", "i", "o", "n">>) /\ config.defaultToken # <<>>)
                => /\ HasHeader(forwarded, <<"a", "u", "t", "h", "o", "r", "i", "z", "a", "t", "i", "o", "n">>)
                   /\ forwarded[<<"a", "u", "t", "h", "o", "r", "i", "z", "a", "t", "i", "o", "n">>] = <<"B", "e", "a", "r", "e", "r", " ">> \o config.defaultToken
           /\ HasHeader(incoming, <<"a", "u", "t", "h", "o", "r", "i", "z", "a", "t", "i", "o", "n">>)
                => /\ HasHeader(forwarded, <<"a", "u", "t", "h", "o", "r", "i", "z", "a", "t", "i", "o", "n">>)
                   /\ forwarded[<<"a", "u", "t", "h", "o", "r", "i", "z", "a", "t", "i", "o", "n">>] = incoming[<<"a", "u", "t", "h", "o", "r", "i", "z", "a", "t", "i", "o", "n">>]
           /\ (~HasHeader(incoming, <<"a", "u", "t", "h", "o", "r", "i", "z", "a", "t", "i", "o", "n">>) /\ config.defaultToken = <<>>)
                => ~HasHeader(forwarded, <<"a", "u", "t", "h", "o", "r", "i", "z", "a", "t", "i", "o", "n">>)

\* the request of slot r carries no Authorization header, or an empty one
NoAuthorization(r) ==
    \/ ~HasHeader(req[r].request.headers, <<"a", "u", "t", "h", "o", "r", "i", "z", "a", "t", "i", "o", "n">>)
    \/ req[r].request.headers[<<"a", "u", "t", "h", "o", "r", "i", "z", "a", "t", "i", "o", "n">>] = <<>>

\* API_TOKEN with the scheme "Bearer " put before it unless it states one
BearerToken ==
    IF /\ Len(config.defaultToken) >= 7
       /\ ToLowerCase(SubSeq(config.defaultToken, 1, 7)) = <<"b", "e", "a", "r", "e", "r", " ">>
    THEN config.defaultToken
    ELSE <<"B", "e", "a", "r", "e", "r", " ">> \o config.defaultToken

\* C11 as amended: on a route whose group allows the environment token, a
\* request with no or an empty Authorization header is forwarded with
\* API_TOKEN, prefixed by "Bearer " unless it begins with it, when API_TOKEN
\* is set; a non-empty Authorization header of the client is forwarded as it
\* is; on the OAuth routes, or with a blank API_TOKEN, none is added.
C11_DefaultTokenAmended ==
    \A r \in Proxied :
        LET incoming == req[r].request.headers
            forwarded == req[r].axiosConfig.headers
            injects == req[r].endpoint.base = "api" /\ config.defaultToken # <<>>
        IN /\ (NoAuthorization(r) /\ injects)
                => /\ HasHeader(forwarded, <<"a", "u", "t", "h", "o", "r", "i", "z", "a", "t", "i", "o", "n">>)
                   /\ forwarded[<<"a", "u", "t", "h", "o", "r", "i", "z", "a", "t", "i", "o", "n">>] = BearerToken
           /\ ~NoAuthorization(r)
                => /\ HasHeader(forwarded, <<"a", "u", "t", "h", "o", "r", "i", "z", "a", "t", "i", "o", "n">>)
                   /\ forwarded[<<"a", "u", "t", "h", "o", "r", "i", "z", "a", "t", "i", "o", "n">>] = incoming[<<"a", "u", "t", "h", "o", "r", "i", "z", "a", "t", "i", "o", "n">>]
           /\ (NoAuthorization(r) /\ ~injects)
                => ~HasHeader(forwarded, <<"a", "u", "t", "h", "o", "r", "i", "z", "a", "t", "i", "o", "n">>)

\* An API route was called without Authorization while API_TOKEN states its
\* scheme, and the token went upstream as it is.
C11_Witness ==
    \E r \in Proxied :
        /\ req[r].endpoint.base = "api"
        /\ ~HasHeader(req[r].request.headers, <<"a", "u", "t", "h", "o", "r", "i", "z", "a", "t", "i", "o", "n">>)
        /\ config.defaultToken = <<"B", "e", "a", "r", "e", "r", " ", "a", "b", "c">>
        /\ req[r].axiosConfig.headers[<<"a", "u", "t", "h", "o", "r", "i", "z", "a", "t", "i", "o", "n">>] = <<"B", "e", "a", "r", "e", "r", " ", "a", "b", "c">>


\* the hop-by-hop headers C12 names
C12_HopByHop ==
    {<<"c", "o", "n", "n", "e", "c", "t", "i", "o", "n">>, <<"k", "e", "e", "p", "-", "a", "l", "i", "v", "e">>, <<"p", "r", "o", "x", "y", "-", "a", "u", "t", "h", "e", "n", "t", "i", "c", "a", "t", "e">>, <<"p", "r", "o", "x", "y", "-", "a", "u", "t", "h", "o", "r", "i", "z", "a", "t", "i", "o", "n">>,
     <<"t", "e">>, <<"t", "r", "a", "i", "l", "e", "r", "s">>, <<"t", "r", "a", "n", "s", "f", "e", "r", "-", "e", "n", "c", "o", "d", "i", "n", "g">>, <<"u", "p", "g", "r", "a", "d", "e">>, <<"h", "o", "s", "t">>}

\* forwarded holds exactly the headers of received with a name in names, with
\* their values; authorization, which the proxy may rewrite, is left aside
ForwardsExactly(received, forwarded, names) ==
    /\ DOMAIN forwarded \ {<<"a", "u", "t", "h", "o", "r", "i", "z", "a", "t", "i", "o", "n">>} = names \ {<<"a", "u", "t", "h", "o", "r", "i", "z", "a", "t", "i", "o", "n">>}
    /\ \A name \in names \ {<<"a", "u", "t", "h", "o", "r", "i", "z", "a", "t", "i", "o", "n">>} : forwarded[name] = received[name]

\* the headers of received that are not hop-by-hop
EndToEnd(received) ==
    {name \in DOMAIN received : ToLowerCase(name) \notin C12_HopByHop}

\* the proxied requests the upstream has answered
Relayed == {r \in Proxied : req[r].pc = "done" /\ req[r].upstream = "response"}

\* C12: upstream and back, the forwarded headers are exactly the
\* received headers that are not hop-by-hop, with their names and values.
C12_HeadersForwarded ==
    /\ \A r \in Proxied :
          ForwardsExactly(req[r].request.headers, req[r].axiosConfig.headers,
                          EndToEnd(req[r].request.headers))
    /\ \A r \in Relayed :
          ForwardsExactly(req[r].response.headers, req[r].sent.headers,
                          EndToEnd(req[r].response.headers))

\* the URL-encoded form of the values a route parameter takes in the model
C13_UrlEncoded(value) == IF value = <<"a", "/", "b">> THEN <<"a", "%", "2", "F", "b">> ELSE value

\* the URL C13 expects for the request of slot r: the base URL of the group
\* and the route path with its parameter replaced
C13_Url(r) ==
    (IF req[r].endpoint.base = "api" THEN config.apiBaseUrl ELSE config.oauthBaseUrl)
    \o (IF req[r].endpoint.path = <<"/", "f", "i", "l", "e", "s", "/", ":", "i", "d", "P", "a", "r", "e", "n", "t", "/", "l", "i", "s", "t">>
        THEN <<"/", "f", "i", "l", "e", "s", "/">> \o C13_UrlEncoded(req[r].request.params[<<"i", "d", "P", "a", "r", "e", "n", "t">>])
             \o <<"/", "l", "i", "s", "t">>
        ELSE req[r].endpoint.path)

\* the body of the upstream request of slot r, empty when none is sent
UpstreamBody(r) ==
    IF HasOwn(req[r].axiosConfig, "data") THEN req[r].axiosConfig.data ELSE {}

Unanswered == {r \in Proxied : req[r].pc = "done" /\ req[r].upstream # "response"}

\* C14: a proxied request whose upstream did not answer within the timeout
\* is answered 504 "Upstream request timed out", any other failure to obtain
\* a response is answered 502, and one response is sent.
C14_UpstreamFailure ==
    \A r \in Unanswered :
        /\ req[r].upstream = "timeout"
              => /\ req[r].sent.status = 504
                 /\ req[r].sent.body = "Upstream request timed out"
        /\ req[r].upstream = "failure" => req[r].sent.status = 502
        /\ req[r].responses = 1

\* C15: for every upstream response the client receives the status and the
\* body of that response.
C15_PassThrough ==
    \A r \in Relayed :
        /\ req[r].sent.status = req[r].response.status
        /\ req[r].sent.body = req[r].response.body


-----------------------------------------------------------------------------
(* The users routes: GET /users, DELETE /users/:id *)

\* the filter of the administrator's find: {} or {deleted: false}
ListFilterMutant(includeDeleted, doc) == TRUE

ListFilter(includeDeleted, doc) == includeDeleted \/ doc.deleted = FALSE

\* GET /users arrives: authenticateRequest verifies the token and awaits the
\* user it names
StartList(r, auth, includeDeleted) ==
    /\ CanStart(r)
    /\ req' = [req EXCEPT ![r] =
           [op |-> "list", pc |-> IF JwtVerify(auth) THEN "authenticate" ELSE "done",
            status |-> IF JwtVerify(auth) THEN 0 ELSE 401,
            auth |-> auth, includeDeleted |-> includeDeleted]]
    /\ UNCHANGED <<config, includeResultMetadata, users, gift_cards, user_redeems,
                   verify_email, clock, randomCount, mailbox, jwts>>

\* authenticateRequest's findOne resolves; the handler awaits find(filter)
\* for an administrator and findOne({_id}) for any other user
ListAuthenticate(r) ==
    /\ req[r].op = "list" /\ req[r].pc = "authenticate"
    /\ LET authUser == FindAuthUser(req[r].auth)
       IN IF ~IsDoc(authUser) THEN Respond(r, 401)
          ELSE Step(r, [pc |-> IF isAdmin(authUser) THEN "find" ELSE "findCurrent",
                        admin |-> isAdmin(authUser)])
    /\ UNCHANGED <<config, includeResultMetadata, users, gift_cards, user_redeems,
                   verify_email, clock, randomCount, mailbox, jwts>>

\* the administrator's find(filter).toArray() resolves: the answer holds the
\* documents that match (result holds their ids)
ListFind(r) ==
    /\ req[r].op = "list" /\ req[r].pc = "find"
    /\ LET includeDeleted == parseBooleanField(req[r].includeDeleted, FALSE)
           found == {i \in DOMAIN users : ListFilter(includeDeleted, users[i])}
       IN req' = [req EXCEPT ![r] = Answered(r, [status |-> 200, result |-> found])]
    /\ UNCHANGED <<config, includeResultMetadata, users, gift_cards, user_redeems,
                   verify_email, clock, randomCount, mailbox, jwts>>

\* findOne({_id: req.authUser._id}) resolves; refreshStorageIfExpired awaits
\* its update when the quota has expired, else the caller's document is sent
ListFindCurrent(r) ==
    /\ req[r].op = "list" /\ req[r].pc = "findCurrent"
    /\ LET current == FindById(users, req[r].auth)
       IN IF ~IsDoc(current) THEN Respond(r, 404)
          ELSE IF StorageExpired(current, clock)
               THEN Step(r, [pc |-> "refreshStorage",
                             timestamp |-> toChineseIsoString(clock)])
          ELSE req' = [req EXCEPT ![r] =
                          Answered(r, [status |-> 200, result |-> {current._id}])]
    /\ UNCHANGED <<config, includeResultMetadata, users, gift_cards, user_redeems,
                   verify_email, clock, randomCount, mailbox, jwts>>

\* refreshStorageIfExpired: updateOne zeroes the quota; the caller's document
\* is sent
ListRefresh(r) ==
    /\ req[r].op = "list" /\ req[r].pc = "refreshStorage"
    /\ users' = UpdateById(users, req[r].auth,
                           [storage_all |-> 0, storage_used |-> 0,
                            updated_at |-> req[r].timestamp])
    /\ req' = [req EXCEPT ![r] = Answered(r, [status |-> 200, result |-> {req[r].auth}])]
    /\ UNCHANGED <<config, includeResultMetadata, gift_cards, user_redeems,
                   verify_email, clock, randomCount, mailbox, jwts>>

\* DELETE /users/:id arrives
StartDelete(r, auth, id) ==
    /\ CanStart(r)
    /\ req' = [req EXCEPT ![r] =
           [op |-> "delete", pc |-> IF JwtVerify(auth) THEN "authenticate" ELSE "done",
            status |-> IF JwtVerify(auth) THEN 0 ELSE 401,
            auth |-> auth, id |-> id]]
    /\ UNCHANGED <<config, includeResultMetadata, users, gift_cards, user_redeems,
                   verify_email, clock, randomCount, mailbox, jwts>>

\* authenticateRequest's findOne resolves; the handler runs up to its
\* findOneAndUpdate, whose $set it has built
DeleteAuthenticate(r) ==
    /\ req[r].op = "delete" /\ req[r].pc = "authenticate"
    /\ LET authUser == FindAuthUser(req[r].auth)
       IN IF ~IsDoc(authUser) THEN Respond(r, 401)
          ELSE IF ~ObjectIdIsValid(req[r].id) THEN Respond(r, 400)
          ELSE IF ensureSelfAccess(req[r].id, authUser) # 0
               THEN Respond(r, ensureSelfAccess(req[r].id, authUser))
          ELSE Step(r, [pc |-> "update",
                        updates |-> [deleted |-> TRUE,
                                     updated_at |-> toChineseIsoString(clock)]])
    /\ UNCHANGED <<config, includeResultMetadata, users, gift_cards, user_redeems,
                   verify_email, clock, randomCount, mailbox, jwts>>

\* findOneAndUpdate({_id: userId}, {$set: {deleted: true, updated_at}})
\* resolves.  result.value throws a TypeError when result is null; it is
\* undefined when result is the document itself.
DeleteUpdate(r) ==
    /\ req[r].op = "delete" /\ req[r].pc = "update"
    /\ LET after == UpdateById(users, req[r].id, req[r].updates)
           result == FindOneAndUpdateResult(FindById(after, req[r].id))
       IN /\ users' = after
          /\ Respond(r, IF ~result.truthy THEN 500
                        ELSE IF IsDoc(result.value) THEN 200 ELSE 404)
    /\ UNCHANGED <<config, includeResultMetadata, gift_cards, user_redeems,
                   verify_email, clock, randomCount, mailbox, jwts>>

-----------------------------------------------------------------------------
(* Listing, deleting and updating users: the specification *)

\* requests served by this specification
MaxCrudReq == 2

CrudReqIds == 1..MaxCrudReq

\* the administrator, a standard user whose quota expires at hour 12, and a
\* soft-deleted user
InitCrud ==
    /\ config = DefaultConfig
    /\ includeResultMetadata \in BOOLEAN
    /\ users = << StoredUser(1, [email |-> <<"r", "@", "x">>, password |-> "secret0",
                                 role |-> "admin"]),
                  Assign(StoredUser(2, [email |-> EmailA, password |-> "secret1",
                                        storage_all |-> 2, storage_used |-> 1]),
                         [storage_expired_at |-> toChineseIsoString(12)]),
                  StoredUser(3, [email |-> EmailB, password |-> "secret2",
                                 deleted |-> "true"]) >>
    /\ gift_cards = <<>>
    /\ user_redeems = <<>>
    /\ verify_email = {}
    /\ clock = 0
    /\ req = [r \in CrudReqIds |-> Idle]
    /\ randomCount = 0
    /\ mailbox = {}
    /\ jwts = {1, 2}

\* the values of the query parameter includeDeleted
IncludeDeletedValues == {"undefined", "true", "1", "yes"}

\* the ids a request names: none, two stored users, no stored user
CrudIds == {0, 2, 3, 9}

CrudPutPayloads ==
    {[storage_all |-> 1], [storage_used |-> 3], [deleted |-> "true"],
     [nickname |-> "x"]}

NextCrud ==
    \/ \E r \in CrudReqIds, a \in {0, 1, 2}, i \in IncludeDeletedValues : StartList(r, a, i)
    \/ \E r \in CrudReqIds : ListAuthenticate(r)
    \/ \E r \in CrudReqIds : ListFind(r)
    \/ \E r \in CrudReqIds : ListFindCurrent(r)
    \/ \E r \in CrudReqIds : ListRefresh(r)
    \/ \E r \in CrudReqIds, a \in {0, 1, 2}, id \in CrudIds : StartDelete(r, a, id)
    \/ \E r \in CrudReqIds : DeleteAuthenticate(r)
    \/ \E r \in CrudReqIds : DeleteUpdate(r)
    \/ \E r \in CrudReqIds, a \in {1, 2}, id \in CrudIds, p \in CrudPutPayloads :
           StartPut(r, a, id, p)
    \/ \E r \in CrudReqIds : PutAuthenticate(r)
    \/ \E r \in CrudReqIds : PutFindCurrent(r)
    \/ \E r \in CrudReqIds : PutUpdate(r)
    \/ Tick

SpecCrud == InitCrud /\ [][NextCrud]_vars


-----------------------------------------------------------------------------
(* Listing, deleting and updating users: the claims *)

\* request r is answered in this step
AnsweredNow(r) == req[r].pc \notin {"idle", "done"} /\ req'[r].pc = "done"

\* the users GET /users is to return for the query value includeDeleted,
\* true being written true or 1
Listed(includeDeleted) ==
    IF includeDeleted \in {"true", "1"} THEN DOMAIN users
    ELSE {i \in DOMAIN users : users[i].deleted = FALSE}

\* C16: a GET /users that is answered 200 returns every non-deleted user and
\* no soft-deleted user, and with includeDeleted=true every user document.
C16_ListsUsers ==
    [][\A r \in DOMAIN req :
          (req[r].op = "list" /\ AnsweredNow(r) /\ req'[r].status = 200)
              => req'[r].result = Listed(req[r].includeDeleted)]_vars

\* C16 as amended: the same, for a caller that authenticateRequest found to
\* be an administrator.
C16_ListsUsersAmended ==
    [][\A r \in DOMAIN req :
          (req[r].op = "list" /\ AnsweredNow(r) /\ req'[r].status = 200
             /\ req[r].admin)
              => req'[r].result = Listed(req[r].includeDeleted)]_vars

\* an administrator's listing without includeDeleted was answered with the
\* two users that are not deleted, a soft-deleted user being stored
C16_Witness ==
    \E r \in DOMAIN req :
        /\ req[r].op = "list" /\ req[r].pc = "done" /\ req[r].status = 200
        /\ req[r].auth = 1 /\ req[r].includeDeleted = "undefined"
        /\ req[r].result = {1, 2}
        /\ users[3].deleted = TRUE

\* the document of id after a step differs from the one before at most in
\* the given fields, and no other document differs
OnlyChanged(id, fields) ==
    /\ DOMAIN users' = DOMAIN users
    /\ id \in DOMAIN users
    /\ \A j \in DOMAIN users : j # id => users'[j] = users[j]
    /\ DOMAIN users'[id] = DOMAIN users[id]
    /\ \A f \in DOMAIN users[id] : f \notin fields => users'[id][f] = users[id][f]

\* C17: a DELETE /users/:id answered 200 leaves the document in place with
\* deleted = true and updated_at the time of the request, and changes nothing
\* else; for an id matching no user it is answered 404, and a DELETE answered
\* 404 changes nothing.
C17_SoftDelete ==
    [][\A r \in DOMAIN req :
          (req[r].op = "delete" /\ AnsweredNow(r)) =>
              /\ req'[r].status = 200 =>
                    /\ OnlyChanged(req[r].id, {"deleted", "updated_at"})
                    /\ users'[req[r].id].deleted = TRUE
                    /\ \E t \in 0..clock :
                          users'[req[r].id].updated_at = toChineseIsoString(t)
              /\ (req[r].id \notin DOMAIN users /\ req'[r].status \notin {400, 401, 403})
                    => req'[r].status = 404
              /\ req'[r].status = 404 => users' = users]_vars

\* C18: a PUT /users/:id answered 200 changes in the stored document only
\* fields present in the payload and updated_at, and no other document; a
\* PUT answered 400 or 404, and a PUT not yet answered, changes nothing.
C18_PutFrame ==
    [][\A r \in DOMAIN req :
          (req[r].op = "put" /\ req'[r] # req[r]) =>
              /\ req'[r].status = 200 =>
                    OnlyChanged(req[r].id, DOMAIN req[r].payload \cup {"updated_at"})
              /\ req'[r].status \in {400, 404} => users' = users
              /\ req'[r].pc # "done" => users' = users]_vars

\* a PUT of storage_all was answered 200 and the document holds the value
C18_Witness ==
    \E r \in DOMAIN req :
        /\ req[r].op = "put" /\ req[r].pc = "done" /\ req[r].status = 200
        /\ req[r].id = 2 /\ req[r].payload = [storage_all |-> 1]
        /\ users[2].storage_all = 1
        /\ users[2].updated_at > users[2].created_at


-----------------------------------------------------------------------------
(* The gift card routes: POST /gift-cards *)

CHARSET == UpperChars \o DigitChars

MAX_GENERATION_ATTEMPTS == 10

\* parsePositiveNumber: Number(value), finite and positive
parsePositiveNumber(value) == IF IsNaN(value) \/ value <= 0 THEN Err(400) ELSE Ok(value)

\* createCardNumber, draws being the RAW_KEY_LENGTH results of
\* crypto.randomInt(0, CHARSET.length)
createCardNumber(draws) == formatKey([i \in 1..RAW_KEY_LENGTH |-> CHARSET[draws[i] + 1]])

\* buildGiftCardDocument, at time now; metadata, which no route reads, is
\* left out of the document
buildGiftCardDocument(payload, cardNumber, now) ==
    LET storage == parsePositiveNumber(Field(payload, "storage", NaN))
        value == parsePositiveNumber(Field(payload, "value", NaN))
        timestamp == toChineseIsoString(now)
    IN IF ~storage.ok THEN Err(400)
       ELSE IF ~value.ok THEN Err(400)
       ELSE Ok([_id |-> 0, card_number |-> cardNumber, storage |-> storage.value,
                value |-> value.value, used |-> FALSE, used_by |-> NoUsedBy,
                created_at |-> timestamp, updated_at |-> timestamp])

\* POST /gift-cards arrives: generateUniqueCardNumber draws its first
\* candidate and awaits findOne({card_number: candidate})
StartCreateCard(r, payload, draws) ==
    /\ CanStart(r)
    /\ req' = [req EXCEPT ![r] =
           [op |-> "createCard", pc |-> "findCandidate", status |-> 0,
            payload |-> payload, attempt |-> 0,
            candidate |-> createCardNumber(draws)]]
    /\ UNCHANGED <<config, includeResultMetadata, users, gift_cards, user_redeems,
                   verify_email, clock, randomCount, mailbox, jwts>>

\* findOne({card_number: candidate}) resolves: a stored candidate is
\* replaced by a new draw, at most MAX_GENERATION_ATTEMPTS times in all; a
\* free one is returned, the document is built and insertOne awaited
CardFindExisting(r, draws) ==
    /\ req[r].op = "createCard" /\ req[r].pc = "findCandidate"
    /\ LET existing == FindFirst(gift_cards,
                          {i \in DOMAIN gift_cards :
                              gift_cards[i].card_number = req[r].candidate})
           document == buildGiftCardDocument(req[r].payload, req[r].candidate, clock)
       IN IF IsDoc(existing)
          THEN IF req[r].attempt + 1 < MAX_GENERATION_ATTEMPTS
               THEN Step(r, [attempt |-> req[r].attempt + 1,
                             candidate |-> createCardNumber(draws)])
               ELSE Respond(r, 500)
          ELSE IF ~document.ok THEN Respond(r, document.status)
          ELSE Step(r, [pc |-> "insertCard", document |-> document.value])
    /\ UNCHANGED <<config, includeResultMetadata, users, gift_cards, user_redeems,
                   verify_email, clock, randomCount, mailbox, jwts>>

\* insertOne(document) resolves
CardInsert(r) ==
    /\ req[r].op = "createCard" /\ req[r].pc = "insertCard"
    /\ gift_cards' = InsertOne(gift_cards, req[r].document)
    /\ Respond(r, 201)
    /\ UNCHANGED <<config, includeResultMetadata, users, user_redeems,
                   verify_email, clock, randomCount, mailbox, jwts>>

-----------------------------------------------------------------------------
(* Gift card creation: the specification and the claim *)

\* requests served by this specification
MaxCardReq == 2

CardReqIds == 1..MaxCardReq

\* the outcomes of the random draws: AAAAA-AAAAA-AAAAA and AAAAA-AAAAA-AAAAB
CardDraws ==
    {[i \in 1..RAW_KEY_LENGTH |-> 0],
     [i \in 1..RAW_KEY_LENGTH |-> IF i = RAW_KEY_LENGTH THEN 1 ELSE 0]}

CardPayloads == {[storage |-> 1, value |-> 1], [storage |-> 0, value |-> 1], [storage |-> 1]}

\* one card is stored
InitCards ==
    /\ config = DefaultConfig
    /\ includeResultMetadata \in BOOLEAN
    /\ users = <<>>
    /\ gift_cards = << StoredCard(1, createCardNumber([i \in 1..RAW_KEY_LENGTH |-> 0]), 1) >>
    /\ user_redeems = <<>>
    /\ verify_email = {}
    /\ clock = 0
    /\ req = [r \in CardReqIds |-> Idle]
    /\ randomCount = 0
    /\ mailbox = {}
    /\ jwts = {}

NextCards ==
    \/ \E r \in CardReqIds, p \in CardPayloads, d \in CardDraws : StartCreateCard(r, p, d)
    \/ \E r \in CardReqIds, d \in CardDraws : CardFindExisting(r, d)
    \/ \E r \in CardReqIds : CardInsert(r)

SpecCards == InitCards /\ [][NextCards]_vars

\* C19: no two documents of the gift-card collection have the same
\* card_number, after any sequence or interleaving of creation requests.
C19_UniqueCardNumber ==
    \A i, j \in DOMAIN gift_cards :
        i # j => gift_cards[i].card_number # gift_cards[j].card_number


-----------------------------------------------------------------------------
(* Gift card redemption: the balance *)

\* the storage of the card with the given number
StorageOf(cardNumber) ==
    LET i == CHOOSE i \in DOMAIN gift_cards : gift_cards[i].card_number = cardNumber
    IN gift_cards[i].storage

\* C20: a redemption answered 200, of a card with storage s for a user whose
\* document holds storage_all = a and storage_used = u, stores storage_all =
\* s + a - u, leaves storage_used as it is and sets storage_expired_at to 30
\* days after the time of the redemption.
C20_BalanceRecomputed ==
    [][\A r \in DOMAIN req :
          (req[r].op = "redeem" /\ AnsweredNow(r) /\ req'[r].status = 200) =>
              LET id == req[r].userId
              IN /\ users'[id].storage_all =
                        StorageOf(req[r].cardNumber) + users[id].storage_all
                            - users[id].storage_used
                 /\ users'[id].storage_used = users[id].storage_used
                 /\ users'[id].storage_expired_at =
                        toChineseIsoString(clock) + STORAGE_EXTENSION_DAYS * 24]_vars

=============================================================================
